---- MODULE Spec2Model ----
(***************************************************************************)
(* Handler registry, event dispatcher and transactional CRUD orchestrator  *)
(* of the gohan Go-plugin extension runtime (extension/goplugin), with the *)
(* lifecycle of its environments and the property filter of the schema     *)
(* package.                                                                *)
(*                                                                         *)
(* A behaviour belongs to one family.  The request families are a load     *)
(* phase (handler registrations) followed by one request: a custom action  *)
(* dispatched with HandleEvent, a create, update or delete, or a read, on  *)
(* schema "network" or on a schema without a native type.  A request runs  *)
(* to completion in one step; what happened inside it is kept in trace,    *)
(* in call order.  The other families are the lifecycle of the             *)
(* environments (load, start, stop, reset, clone), two requests that       *)
(* dispatch concurrently, the making and asking of property filters, the   *)
(* resource marshaler, IsAdminContext, two goroutines on one filter        *)
(* factory, and Begin and BeginTx of the database binding.                 *)
(***************************************************************************)
EXTENDS Integers, Sequences, FiniteSets, TLC

\* Bound: number of handler registrations made during the load phase.
MaxReg == 2

\* Bounds of the lifecycle behaviour: environments alive, trace IDs generated.
MaxEnvs == 3
MaxUUID == 3

\* Bound: length of the property lists and key lists the filters are given.
MaxProps == 2

\* ------------------------------------------------------------------------
\* Universe of the exploration
\* ------------------------------------------------------------------------

\* Schemas the schema manager knows (Schemas.Find succeeds for these).
Schemas == {"network", "subnet"}

\* A schema ID handlers can be registered under although the manager does
\* not know it (RegisterSchemaEventHandler takes any string).
UnknownSchema == "ghost"

\* A schema of the manager no extension registered a native type for.
UntypedSchema == "port"

\* Schemas of the manager whose registered raw type cannot take the resource
\* of a context: one field of UntaggedSchema's struct has no `db` tag, one
\* field of StraySchema's struct has a `db` tag that names no property of the
\* schema.
UntaggedSchema == "router"

StraySchema == "firewall"

\* Schemas with a registered raw type (env.rawTypes).
rawTypes == {"network", "subnet", UntaggedSchema, StraySchema}

\* Schemas with a registered resource type (env.types).
types == {"network"}

Priorities == {2, 10}

\* Behaviours of the handlers an extension registers:
\*  "reject" fails when the resource it is given has status
\*           DELETE_IN_PROGRESS and succeeds without effect otherwise;
\*  "mark"   sets the resource's status to DELETE_IN_PROGRESS, writes the
\*           key "note" into the context and succeeds.
Kinds == {"reject", "mark"}

DIP == "DELETE_IN_PROGRESS"

\* The request families.  Lifecycle events are dispatched by the
\* orchestrator, the custom action by a direct HandleEvent call.
Families ==
  {"create", "update", "delete", "action", "read", "lifecycle", "concurrent", "untyped", "filter",
   "marshal", "auth", "factory", "database"}

PreEvent(fam) ==
  CASE fam = "create" -> "pre_create"
    [] fam = "update" -> "pre_update"
    [] fam = "delete" -> "pre_delete"
    [] OTHER -> "notify"

PostEvent(fam) ==
  CASE fam = "create" -> "post_create"
    [] fam = "update" -> "post_update"
    [] fam = "delete" -> "post_delete"
    [] OTHER -> "notify"

PreEvents == {"pre_create", "pre_update", "pre_delete"}
PostEvents == {"post_create", "post_update", "post_delete"}

\* Events the extensions of one behaviour register handlers for.
FamilyEvents(fam) ==
  CASE fam = "read" -> {"pre_update"}
    [] fam = "untyped" -> {"pre_create"}
    [] fam \in {"lifecycle", "filter", "marshal", "auth", "factory", "database"} -> {}
    [] OTHER -> {PreEvent(fam), PostEvent(fam)}

\* Schema IDs the extensions of one behaviour register handlers under.
FamilySchemas(fam) ==
  CASE fam = "action" -> Schemas \cup {UnknownSchema}
    [] fam = "untyped" -> {UntypedSchema, UntaggedSchema, StraySchema}
    [] OTHER -> Schemas

\* The schemas whose objects the extensions of one behaviour register on.
ResourceSchemas(fam) == IF fam = "untyped" THEN {UntypedSchema} ELSE Schemas

\* ------------------------------------------------------------------------
\* Go maps
\* ------------------------------------------------------------------------

EmptyMap == [x \in {} |-> 0]

MapPut(m, k, v) == [x \in (DOMAIN m) \cup {k} |-> IF x = k THEN v ELSE m[x]]

Has(m, k) == k \in DOMAIN m

\* All orders in which the keys of S can come out of a Go map range.
Perms(S) == {p \in [1..Cardinality(S) -> S] : \A i, j \in 1..Cardinality(S) : p[i] = p[j] => i = j}

\* The keys of map m as one range over it yields them, the runtime's
\* iteration order being iter (a permutation of a superset of the keys).
mapRange(m, iter) == SelectSeq(iter, LAMBDA k : k \in DOMAIN m)

RECURSIVE insertSorted(_, _)
insertSorted(x, s) ==
  IF s = <<>> THEN <<x>>
  ELSE IF x <= Head(s) THEN <<x>> \o s
  ELSE <<Head(s)>> \o insertSorted(x, Tail(s))

\* sort.Ints
RECURSIVE sortInts(_)
sortInts(s) == IF s = <<>> THEN <<>> ELSE insertSorted(Head(s), sortInts(Tail(s)))

\* ------------------------------------------------------------------------
\* Errors
\* ------------------------------------------------------------------------

Err(tag, cause, event, priority, index) ==
  [tag |-> tag, cause |-> cause, event |-> event, priority |-> priority, index |-> index]

NoErr == Err("nil", "", "", 0, 0)

\* The failure value a handler of kind h returns.
HandlerErr(h) == Err("handler", h, "", 0, 0)

\* fmt.Errorf("failed to dispatch event '%s' at priority '%d' with index '%d': %s", ...)
DispatchErr(event, priority, index, e) == Err("dispatch", e.cause, event, priority, index)

\* goext.Error{ErrorBadRequest, "failed to parse resource from context ..."}
BadRequestErr(schemaID, event) == Err("bad_request", schemaID, event, 0, 0)

\* fmt.Errorf("could not find schema: %s", schemaID)
NoSchemaErr(schemaID) == Err("no_schema", schemaID, "", 0, 0)

\* The error a failing storage call returns.
StorageErr(method) == Err("storage", method, "", 0, 0)

\* makeErrMissingType: "resource type '<schema>' not registered"
makeErrMissingType(missingType) == Err("missing_type", missingType, "", 0, 0)

\* transaction.ErrResourceNotFound
TxErrResourceNotFound == Err("tx_not_found", "", "", 0, 0)

\* goext.ErrResourceNotFound
ErrResourceNotFound == Err("not_found", "", "", 0, 0)

\* errors.New("raw resource must be passed by a pointer")
ErrNotPointer == Err("not_pointer", "", "", 0, 0)

\* ------------------------------------------------------------------------
\* Resource marshaler
\* ------------------------------------------------------------------------

\* Fields of the raw resource struct and their `db` tags.
StructFields == {"ID", "Status"}

Tag(f) == IF f = "ID" THEN "id" ELSE "status"

FieldOf(t) == CHOOSE f \in StructFields : Tag(f) = t

Tags == {Tag(f) : f \in StructFields}

\* reflect.New(resourceType): every field at its zero value.
ZeroResource == [f \in StructFields |-> ""]

\* Struct to attribute map: one key per field, named by the field's db tag.
resourceToMap(resource) == [t \in Tags |-> resource[FieldOf(t)]]

\* Attribute map into a struct: a field whose tag is a key of the map takes
\* the map's value, any other field keeps what the target held.
resourceFromMap(data, target) ==
  [f \in StructFields |-> IF Tag(f) \in DOMAIN data THEN data[Tag(f)] ELSE target[f]]

\* The `db` tags of the fields of a schema's raw type, in field order; ""
\* where the field has no tag.
rawTags(schemaID) ==
  IF schemaID = UntaggedSchema THEN <<"id", "">>
  ELSE IF schemaID = StraySchema THEN <<"id", "state">>
  ELSE <<"id", "status">>

\* rawSchema.GetPropertyByID(propertyName) returns no error.
GetPropertyByID(schemaID, propertyName) == propertyName \in Tags

\* The loop of resourceFromContext over the fields of the raw type returns
\* no error: every field has a tag, and the tag names a property.
fieldsFromContext(schemaID) ==
  \A i \in 1..Len(rawTags(schemaID)) :
    rawTags(schemaID)[i] # "" /\ GetPropertyByID(schemaID, rawTags(schemaID)[i])

\* resourceFromContext: a fresh struct filled from context["resource"];
\* fails when no raw type is registered for the schema and, the context
\* holding a resource, when a field of the raw type cannot be filled.
resourceFromContext(schemaID, context) ==
  IF schemaID \notin rawTypes THEN [ok |-> FALSE, resource |-> ZeroResource]
  ELSE IF Has(context, "resource")
       THEN IF fieldsFromContext(schemaID)
            THEN [ok |-> TRUE, resource |-> resourceFromMap(context["resource"], ZeroResource)]
            ELSE [ok |-> FALSE, resource |-> ZeroResource]
       ELSE [ok |-> TRUE, resource |-> ZeroResource]

\* ------------------------------------------------------------------------
\* State
\* ------------------------------------------------------------------------

VARIABLES
  family,          \* the request family of this behaviour
  handlers,        \* env.handlers: event -> priority -> list of handlers
  schemaHandlers,  \* env.schemaHandlers: event -> schema -> priority -> list
  nreg,            \* registrations made so far
  db,              \* rows of the storage collaborator, by id
  requestContext,  \* the caller's request context
  rawResource,     \* the caller's typed resource
  op,              \* the request made: its name and arguments
  contextCopy,     \* the context the request worked on, as it left it
  trace,           \* what the request did, in order
  err,             \* the error the request returned
  result,          \* what a read returned beside its error
  envs,            \* the environments of the lifecycle behaviour, the original first
  uuids,           \* how many trace IDs were generated
  procs,           \* the requests dispatching concurrently, each with its own context
  lastCall,        \* the last call on an environment, and what it returned
  filtering,       \* the filter factory, the filter it made last, the last call on them
  marshaling,      \* the last conversion the marshaler made, and what it returned
  authorizing,     \* the last context IsAdminContext was asked about, and its answer
  callers,         \* the goroutines inside CreateFilterFromProperties on the one factory
  beginning,       \* the last Begin or BeginTx on the database binding, and what it returned
  panicked         \* the message the request panicked with, "" when it returned

\* The records of the calls that involve no environment and no request.
unitVars == <<marshaling, authorizing, callers, beginning>>

vars == <<family, handlers, schemaHandlers, nreg, db, requestContext, rawResource, op,
          contextCopy, trace, err, result, envs, uuids, procs, lastCall, filtering, unitVars, panicked>>

\* ------------------------------------------------------------------------
\* Trace of one request
\* ------------------------------------------------------------------------

NoResource == ZeroResource

CtxResource(context) == IF Has(context, "resource") THEN context["resource"] ELSE EmptyMap

CtxResourceID(context) == IF Has(context, "resource_id") THEN context["resource_id"] ELSE ""

TraceEntry(type, call, event, scope, schema, priority, index, h, failed, rid, res, resAfter, seen, after, context) ==
  [type |-> type, call |-> call, event |-> event, scope |-> scope, schema |-> schema,
   priority |-> priority, index |-> index, h |-> h, failed |-> failed, rid |-> rid,
   res |-> res, resAfter |-> resAfter, seen |-> seen, after |-> after, ctx |-> context]

\* HandleEvent entered: scope is "single" when the context names a schema.
EventEntry(call, event, context) ==
  TraceEntry("event", call, event,
             IF Has(context, "schema_id") THEN "single" ELSE "broadcast",
             IF Has(context, "schema_id") THEN context["schema_id"] ELSE "",
             0, 0, "", FALSE, CtxResourceID(context), NoResource, NoResource,
             CtxResource(context), CtxResource(context), context)

\* One handler invocation.  scope "schema": called with (context, resource,
\* env), res / resAfter the typed resource before and after the call;
\* scope "generic": called with (context, env).  seen / after are
\* context["resource"] when the handler is entered and when the dispatcher
\* is done with the invocation, ctx the context the handler is entered with.
HandlerEntry(call, event, scope, schema, priority, index, h, failed, rid, res, resAfter, seen, after, context) ==
  TraceEntry("handler", call, event, scope, schema, priority, index, h, failed, rid,
             res, resAfter, seen, after, context)

\* One call of the storage transaction: seen is the attribute map handed to
\* it, after the row the storage holds once it returned.
StorageEntry(method, schema, id, failed, data, row) ==
  TraceEntry("storage", 0, method, "", schema, 0, 0, "", failed, id,
             NoResource, NoResource, data, row, EmptyMap)

\* The caller's typed resource written in place from an attribute map.
WritebackEntry(schema, id, before, written, data) ==
  TraceEntry("writeback", 0, "", "", schema, 0, 0, "", FALSE, id,
             before, written, data, data, EmptyMap)

\* ------------------------------------------------------------------------
\* Handlers (extension code)
\* ------------------------------------------------------------------------

\* A schema handler called with (context, resource, environment).
SchemaHandlerCall(h, context, resource) ==
  IF h = "reject"
  THEN [context |-> context, resource |-> resource,
        err |-> IF resource["Status"] = DIP THEN HandlerErr(h) ELSE NoErr]
  ELSE [context |-> MapPut(context, "note", "marked"),
        resource |-> [resource EXCEPT !["Status"] = DIP],
        err |-> NoErr]

\* A generic handler called with (context, environment): it reads and
\* writes the resource through context["resource"].
GenericHandlerCall(h, context) ==
  IF h = "reject"
  THEN [context |-> context,
        err |-> IF Has(context, "resource") /\ Has(context["resource"], "status")
                   /\ context["resource"]["status"] = DIP
                THEN HandlerErr(h) ELSE NoErr]
  ELSE [context |-> IF Has(context, "resource")
                    THEN MapPut(MapPut(context, "note", "marked"), "resource",
                                MapPut(context["resource"], "status", DIP))
                    ELSE MapPut(context, "note", "marked"),
        err |-> NoErr]

\* ------------------------------------------------------------------------
\* Event dispatcher
\* ------------------------------------------------------------------------

\* `if err != nil { return err }`: rest runs only when st holds no error.
OnSuccess(st, rest(_)) == IF st.err # NoErr THEN st ELSE rest(st)

\* Schemas.Find
Find(schemaID) == schemaID \in Schemas \cup {UntypedSchema, UntaggedSchema, StraySchema}

\* The priorities as the map range yields them, left unsorted.
unsortedSchemaHandlers(schemaHandlersByPriority, iter) ==
  mapRange(schemaHandlersByPriority, iter.prio)

sortSchemaHandlers(schemaHandlersByPriority, iter) ==
  sortInts(mapRange(schemaHandlersByPriority, iter.prio))

sortHandlers(handlersByPriority, iter) ==
  sortInts(mapRange(handlersByPriority, iter.prio))

\* A dispatcher that leaves context["resource"] as the handler left it.
keepContextResource(context, resource) == context

\* context["resource"] = sch.StructToMap(resource)
remarshalResource(context, resource) == MapPut(context, "resource", resourceToMap(resource))

RECURSIVE schemaHandlerLoop(_, _, _, _, _, _)

\* One iteration of the inner loop of dispatchSchemaEvent, the handler
\* having returned out: return its error, or re-marshal and go on.
schemaHandlerReturned(bucket, i, priority, schemaID, event, st, out) ==
  IF out.err # NoErr
  THEN [st EXCEPT !.ctx = out.context, !.res = out.resource, !.err = out.err,
                  !.trace = Append(st.trace,
                      HandlerEntry(st.call, event, "schema", schemaID, priority, i, bucket[i],
                                   TRUE, CtxResourceID(st.ctx), st.res, out.resource,
                                   CtxResource(st.ctx), CtxResource(out.context),
                                   MapPut(st.ctx, "go_validation", TRUE)))]
  ELSE schemaHandlerLoop(bucket, i + 1, priority, schemaID, event,
         [st EXCEPT !.ctx = remarshalResource(out.context, out.resource),
                    !.res = out.resource,
                    !.trace = Append(st.trace,
                        HandlerEntry(st.call, event, "schema", schemaID, priority, i, bucket[i],
                                     FALSE, CtxResourceID(st.ctx), st.res, out.resource,
                                     CtxResource(st.ctx),
                                     CtxResource(remarshalResource(out.context, out.resource)),
                                     MapPut(st.ctx, "go_validation", TRUE)))])

\* The inner loop of dispatchSchemaEvent, from handler i of one bucket.
schemaHandlerLoop(bucket, i, priority, schemaID, event, st) ==
  IF i > Len(bucket) THEN st
  ELSE schemaHandlerReturned(bucket, i, priority, schemaID, event, st,
         SchemaHandlerCall(bucket[i], MapPut(st.ctx, "go_validation", TRUE), st.res))

\* The outer loop of dispatchSchemaEvent, from priority k of the sorted list.
RECURSIVE schemaPriorityLoop(_, _, _, _, _, _)
schemaPriorityLoop(priorities, k, prioritizedSchemaHandlers, schemaID, event, st) ==
  IF k > Len(priorities) THEN st
  ELSE OnSuccess(schemaHandlerLoop(prioritizedSchemaHandlers[priorities[k]], 1,
                                   priorities[k], schemaID, event, st),
                 LAMBDA st1 : schemaPriorityLoop(priorities, k + 1, prioritizedSchemaHandlers,
                                                 schemaID, event, st1))

\* dispatchSchemaEvent, the resource having been parsed from the context.
dispatchParsed(parsed, prioritizedSchemaHandlers, schemaID, event, st, iter) ==
  IF parsed.ok
  THEN schemaPriorityLoop(sortSchemaHandlers(prioritizedSchemaHandlers, iter), 1,
                          prioritizedSchemaHandlers, schemaID, event,
                          [st EXCEPT !.res = parsed.resource])
  ELSE [st EXCEPT !.err = BadRequestErr(schemaID, event)]

\* A dispatch that runs the handlers on the zero resource when the resource
\* of the context could not be parsed.
dispatchSchemaEventUnparsed(prioritizedSchemaHandlers, schemaID, event, st, iter) ==
  dispatchParsed([ok |-> TRUE, resource |-> resourceFromContext(schemaID, st.ctx).resource],
                 prioritizedSchemaHandlers, schemaID, event, st, iter)

dispatchSchemaEvent(prioritizedSchemaHandlers, schemaID, event, st, iter) ==
  dispatchParsed(resourceFromContext(schemaID, st.ctx), prioritizedSchemaHandlers,
                 schemaID, event, st, iter)

\* HandleEvent, "dispatch to schema handlers", over the schemas in order:
\* the one the context names (when it has handlers for the event), or in
\* broadcast mode every schema with handlers, as the map range yields them.
RECURSIVE schemaLoop(_, _, _, _, _, _)
schemaLoop(order, k, single, event, st, iter) ==
  IF k > Len(order) THEN st
  ELSE IF Find(order[k])
       THEN OnSuccess(dispatchSchemaEvent(st.env.schemaHandlers[event][order[k]], order[k],
                                          event, st, iter),
                      LAMBDA st1 : schemaLoop(order, k + 1, single, event, st1, iter))
       ELSE IF single THEN st ELSE [st EXCEPT !.err = NoSchemaErr(order[k])]

\* A choice of schemas that ranges over every schema with handlers for the
\* event, whether the context names a schema or not.
targetSchemasOfAll(event, env, context, iter) ==
  IF ~Has(env.schemaHandlers, event) THEN <<>>
  ELSE mapRange(env.schemaHandlers[event], iter.schema)

\* The schemas HandleEvent dispatches to, in order.
targetSchemas(event, env, context, iter) ==
  IF ~Has(env.schemaHandlers, event) THEN <<>>
  ELSE IF Has(context, "schema_id")
       THEN IF Has(env.schemaHandlers[event], context["schema_id"])
            THEN <<context["schema_id"]>> ELSE <<>>
       ELSE mapRange(env.schemaHandlers[event], iter.schema)

dispatchToSchemaHandlers(event, st, iter) ==
  schemaLoop(targetSchemas(event, st.env, st.ctx, iter), 1, Has(st.ctx, "schema_id"), event,
             st, iter)

RECURSIVE genericHandlerLoop(_, _, _, _, _)

\* One iteration of the inner loop of "dispatch to generic handlers", the
\* handler having returned out.
genericHandlerReturned(bucket, i, priority, event, st, out) ==
  IF out.err # NoErr
  THEN [st EXCEPT !.ctx = out.context,
                  !.err = DispatchErr(event, priority, i - 1, out.err),
                  !.trace = Append(st.trace,
                      HandlerEntry(st.call, event, "generic", "", priority, i, bucket[i],
                                   TRUE, CtxResourceID(st.ctx), NoResource, NoResource,
                                   CtxResource(st.ctx), CtxResource(out.context), st.ctx))]
  ELSE genericHandlerLoop(bucket, i + 1, priority, event,
         [st EXCEPT !.ctx = out.context,
                    !.trace = Append(st.trace,
                        HandlerEntry(st.call, event, "generic", "", priority, i, bucket[i],
                                     FALSE, CtxResourceID(st.ctx), NoResource, NoResource,
                                     CtxResource(st.ctx), CtxResource(out.context),
                                     st.ctx))])

genericHandlerLoop(bucket, i, priority, event, st) ==
  IF i > Len(bucket) THEN st
  ELSE genericHandlerReturned(bucket, i, priority, event, st,
                              GenericHandlerCall(bucket[i], st.ctx))

RECURSIVE genericPriorityLoop(_, _, _, _, _)
genericPriorityLoop(priorities, k, prioritizedEventHandlers, event, st) ==
  IF k > Len(priorities) THEN st
  ELSE OnSuccess(genericHandlerLoop(prioritizedEventHandlers[priorities[k]], 1,
                                    priorities[k], event, st),
                 LAMBDA st1 : genericPriorityLoop(priorities, k + 1, prioritizedEventHandlers,
                                                  event, st1))

\* HandleEvent, "dispatch to generic handlers".
dispatchToGenericHandlers(event, st, iter) ==
  IF Has(st.env.handlers, event)
  THEN genericPriorityLoop(sortHandlers(st.env.handlers[event], iter), 1,
                           st.env.handlers[event], event, st)
  ELSE st

\* HandleEvent entered: context["event_type"] = event.
enterEvent(event, st) ==
  [st EXCEPT !.ctx = MapPut(st.ctx, "event_type", event),
             !.call = st.call + 1,
             !.trace = Append(st.trace,
                 EventEntry(st.call + 1, event, MapPut(st.ctx, "event_type", event)))]

\* A HandleEvent that runs the generic handlers first.
handleEventGenericFirst(event, st, iter) ==
  OnSuccess(dispatchToGenericHandlers(event, enterEvent(event, st), iter),
            LAMBDA st1 : dispatchToSchemaHandlers(event, st1, iter))

\* A HandleEvent that goes on to the generic handlers whatever the schema
\* handlers returned.
handleEventThrough(event, st, iter) ==
  dispatchToGenericHandlers(event, dispatchToSchemaHandlers(event, enterEvent(event, st), iter),
                            iter)

HandleEvent(event, st, iter) ==
  OnSuccess(dispatchToSchemaHandlers(event, enterEvent(event, st), iter),
            LAMBDA st1 : dispatchToGenericHandlers(event, st1, iter))

\* ------------------------------------------------------------------------
\* Handler registry
\* ------------------------------------------------------------------------

MapGet(m, k, default) == IF Has(m, k) THEN m[k] ELSE default

\* env.handlers after RegisterEventHandler(event, handler, priority).
registerEventHandler(registry, event, handler, priority) ==
  MapPut(registry, event,
         MapPut(MapGet(registry, event, EmptyMap), priority,
                Append(MapGet(MapGet(registry, event, EmptyMap), priority, <<>>), handler)))

\* One schema's handlers after a handler is appended at a priority.
appendSchemaHandler(byPriority, handler, priority) ==
  MapPut(byPriority, priority, Append(MapGet(byPriority, priority, <<>>), handler))

\* env.schemaHandlers after RegisterSchemaEventHandler(schemaID, event, handler, priority).
registerSchemaEventHandler(registry, schemaID, event, handler, priority) ==
  MapPut(registry, event,
         MapPut(MapGet(registry, event, EmptyMap), schemaID,
                appendSchemaHandler(MapGet(MapGet(registry, event, EmptyMap), schemaID, EmptyMap),
                                    handler, priority)))

\* ------------------------------------------------------------------------
\* Extension runtime (Environment)
\* ------------------------------------------------------------------------

\* A capability accessor that is nil.
NilBinding == 0

\* env.bind(): the five accessors are made anew, each bound to env itself
\* (self is the identity of env).
bind(env, self) ==
  [env EXCEPT !.extCore = self, !.extLogger = self, !.extSchemas = self, !.extSync = self,
              !.extDatabase = self]

\* NewEnvironment(name, beforeStartHook, afterStopHook, db, ident, sync)
NewEnvironment ==
  bind([initFns |-> {}, traceID |-> 0, handlers |-> EmptyMap, schemaHandlers |-> EmptyMap,
        extCore |-> NilBinding, extLogger |-> NilBinding, extSchemas |-> NilBinding,
        extSync |-> NilBinding, extDatabase |-> NilBinding, resetting |-> FALSE], 1)

\* The extension binaries that can be loaded, and what the initializer of
\* each registers on the environment it is run on.
Plugins == {"acl.so", "audit.so"}

initFn(env, binary) ==
  IF binary = "acl.so"
  THEN [env EXCEPT !.schemaHandlers =
                      registerSchemaEventHandler(@, "network", "notify", "reject", 10)]
  ELSE [env EXCEPT !.handlers = registerEventHandler(@, "notify", "mark", 2)]

\* `for _, initFn := range env.initFns`: the initializers register under
\* different keys, so the order of the range does not show.
RECURSIVE runInitFns(_, _)
runInitFns(env, initFns) ==
  IF initFns = {} THEN env
  ELSE runInitFns(initFn(env, CHOOSE binary \in initFns : TRUE),
                  initFns \ {CHOOSE binary \in initFns : TRUE})

\* Environment.Start(), uuid being the trace ID generated.
Start(env, self, uuid) ==
  IF env.initFns = {} THEN env
  ELSE runInitFns([bind(env, self) EXCEPT !.traceID = uuid], env.initFns)

\* Environment.Stop()
Stop(env) ==
  [env EXCEPT !.extCore = NilBinding, !.extLogger = NilBinding, !.extSchemas = NilBinding,
              !.extSync = NilBinding, !.extDatabase = NilBinding]

\* The paths handed to Load: the two extensions, a file that is not a shared
\* object, a path plugin.Open fails on, a plugin without an Init symbol and a
\* plugin whose Init is not a func(goext.IEnvironment) error.
Binaries == Plugins \cup {"notes.txt", "missing.so", "noinit.so", "badsig.so"}

\* filepath.Ext(binary)
Ext(binary) == IF binary = "notes.txt" THEN ".txt" ELSE ".so"

\* plugin.Open(binary) returns a plugin.
pluginOpen(binary) == binary # "missing.so"

\* pl.Lookup("Init") finds the symbol.
lookupInit(binary) == binary # "noinit.so"

\* init.(func(goext.IEnvironment) error)
initSignature(binary) == binary # "badsig.so"

LoadErr(binary, message) == Err("load", message, binary, 0, 0)

\* What Load returns, with the environment it leaves.
Loaded(env, ok, e) == [env |-> env, ok |-> ok, err |-> e]

\* A Load that records the initializer as soon as the plugin is opened.
loadRecordingEarly(env, binary) ==
  IF binary \in env.initFns THEN Loaded(env, TRUE, NoErr)
  ELSE IF Ext(binary) # ".so" THEN Loaded(env, FALSE, LoadErr(binary, "not a .so file"))
  ELSE IF ~pluginOpen(binary) THEN Loaded(env, FALSE, LoadErr(binary, "failed to load"))
  ELSE IF ~lookupInit(binary)
    THEN Loaded([env EXCEPT !.initFns = @ \cup {binary}], FALSE, LoadErr(binary, "does not export Init"))
  ELSE IF ~initSignature(binary)
    THEN Loaded([env EXCEPT !.initFns = @ \cup {binary}], FALSE, LoadErr(binary, "invalid signature of Init"))
  ELSE Loaded([env EXCEPT !.initFns = @ \cup {binary}], TRUE, NoErr)

\* Environment.Load(fileName)
Load(env, binary) ==
  IF binary \in env.initFns THEN Loaded(env, TRUE, NoErr)
  ELSE IF Ext(binary) # ".so" THEN Loaded(env, FALSE, LoadErr(binary, "not a .so file"))
  ELSE IF ~pluginOpen(binary) THEN Loaded(env, FALSE, LoadErr(binary, "failed to load"))
  ELSE IF ~lookupInit(binary) THEN Loaded(env, FALSE, LoadErr(binary, "does not export Init"))
  ELSE IF ~initSignature(binary)
    THEN Loaded(env, FALSE, LoadErr(binary, "invalid signature of Init"))
  ELSE Loaded([env EXCEPT !.initFns = @ \cup {binary}], TRUE, NoErr)

\* A call on environment i and what it returned; urls are the paths it was
\* given, ok the boolean Load returned.
Call(name, i, urls, ok, e) == [name |-> name, env |-> i, urls |-> urls, ok |-> ok, err |-> e]

NoCall == Call("none", 0, <<>>, FALSE, NoErr)

\* A clone that takes the accessors of the environment it is cloned from.
cloneSharingBindings(env, self, uuid) ==
  [env EXCEPT !.traceID = uuid, !.handlers = EmptyMap, !.schemaHandlers = EmptyMap,
              !.resetting = FALSE]

\* Environment.Clone(): handlers and schemaHandlers are not among the fields
\* copied, the clone holds nil registries.
EnvironmentClone(env, self, uuid) ==
  bind([initFns |-> env.initFns, traceID |-> uuid, handlers |-> EmptyMap,
        schemaHandlers |-> EmptyMap,
        extCore |-> NilBinding, extLogger |-> NilBinding, extSchemas |-> NilBinding,
        extSync |-> NilBinding, extDatabase |-> NilBinding, resetting |-> FALSE], self)

\* The custom actions each schema declares (schema.raw.Actions).
Actions(schemaID) == IF schemaID = "network" THEN {"notify"} ELSE {}

\* An isCustomAction that knows no custom action.
noCustomAction(schemaID, event) == FALSE

\* Schema.isCustomAction(event)
isCustomAction(schemaID, event) == \E action \in Actions(schemaID) : action = event

\* ------------------------------------------------------------------------
\* Storage transaction (external collaborator)
\* ------------------------------------------------------------------------

\* The order in which the storage lists rows.
RowOrder == <<"r1", "r2", "r3">>

\* The row the storage holds for an inserted attribute map: column defaults
\* are filled in by the storage.
StorageRow(data) ==
  [k \in DOMAIN data |-> IF k = "status" /\ data[k] = "" THEN "ACTIVE" ELSE data[k]]

Matches(row, filter) == \A k \in DOMAIN filter : Has(row, k) /\ row[k] = filter[k]

MapRemove(m, k) == [x \in (DOMAIN m) \ {k} |-> m[x]]

\* A storage call returned: the rows it leaves, or its error.
txReturned(st, method, schemaID, id, data, rows) ==
  IF st.scall + 1 = st.failAt
  THEN [st EXCEPT !.scall = st.scall + 1, !.err = StorageErr(method),
                  !.trace = Append(st.trace,
                      StorageEntry(method, schemaID, id, TRUE, data, MapGet(st.db, id, EmptyMap)))]
  ELSE [st EXCEPT !.scall = st.scall + 1, !.db = rows,
                  !.trace = Append(st.trace,
                      StorageEntry(method, schemaID, id, FALSE, data, MapGet(rows, id, EmptyMap)))]

\* tx.Create(ctx, schema, data): returns an error or nil, nothing else.
txCreate(st, schemaID, data) ==
  txReturned(st, "Create", schemaID, data["id"], data, MapPut(st.db, data["id"], StorageRow(data)))

\* tx.Update(ctx, schema, data)
txUpdate(st, schemaID, data) ==
  txReturned(st, "Update", schemaID, data["id"], data, MapPut(st.db, data["id"], data))

\* tx.Delete(ctx, schema, resourceID)
txDelete(st, schemaID, resourceID) ==
  txReturned(st, "Delete", schemaID, resourceID, EmptyMap, MapRemove(st.db, resourceID))

\* tx.List(ctx, schema, filter, nil, paginator)
txList(st, schemaID, filter) == txReturned(st, "List", schemaID, "", filter, st.db)

\* tx.LockList(ctx, schema, filter, nil, paginator, policy)
txLockList(st, schemaID, filter) == txReturned(st, "LockList", schemaID, "", filter, st.db)

\* The rows a successful tx.List returns.
listedRows(rows, filter) ==
  SelectSeq([i \in 1..Len(RowOrder) |-> MapGet(rows, RowOrder[i], EmptyMap)],
            LAMBDA row : row # EmptyMap /\ Matches(row, filter))

\* A storage call that looks one row up found none.
txNotFound(st, method, schemaID, filter) ==
  [st EXCEPT !.scall = st.scall + 1, !.err = TxErrResourceNotFound,
             !.trace = Append(st.trace, StorageEntry(method, schemaID, "", TRUE, filter, EmptyMap))]

\* tx.Fetch(ctx, schema, filter): the first matching row.
txFetch(st, schemaID, filter) ==
  IF st.scall + 1 # st.failAt /\ listedRows(st.db, filter) = <<>>
  THEN txNotFound(st, "Fetch", schemaID, filter)
  ELSE txReturned(st, "Fetch", schemaID, "", filter, st.db)

\* tx.LockFetch(ctx, schema, filter, policy)
txLockFetch(st, schemaID, filter) ==
  IF st.scall + 1 # st.failAt /\ listedRows(st.db, filter) = <<>>
  THEN txNotFound(st, "LockFetch", schemaID, filter)
  ELSE txReturned(st, "LockFetch", schemaID, "", filter, st.db)

\* tx.StateFetch(ctx, schema, filter): the state columns of the matching row.
txStateFetch(st, schemaID, filter) ==
  IF st.scall + 1 # st.failAt /\ listedRows(st.db, filter) = <<>>
  THEN txNotFound(st, "StateFetch", schemaID, filter)
  ELSE txReturned(st, "StateFetch", schemaID, "", filter, st.db)

\* The state columns of a row, which no other call reads or writes.
ResourceState(row) == row["id"]

\* tx.StateUpdate(ctx, schema, data, state): writes state columns only.
txStateUpdate(st, schemaID, data) ==
  txReturned(st, "StateUpdate", schemaID, data["id"], data, st.db)

\* tx.Count(ctx, schema, filter)
txCount(st, schemaID, filter) == txReturned(st, "Count", schemaID, "", filter, st.db)

\* ------------------------------------------------------------------------
\* Request context (goext.Context)
\* ------------------------------------------------------------------------

\* requestContext.Clone(): a new map holding the same entries.
Clone(st) == [st EXCEPT !.ref = "copy"]

WithResource(context, resource) == MapPut(context, "resource", resource)

WithResourceID(context, resourceID) == MapPut(context, "resource_id", resourceID)

WithSchemaID(context, schemaID) == MapPut(context, "schema_id", schemaID)

contextGetMapResource(context) == context["resource"]

\* The nil context: a map with no entry, told apart from an empty map.
NilContext == [nil |-> TRUE]

IsNil(context) == Has(context, "nil")

\* contextGetTransaction(context): the transaction held, and whether one is.
contextGetTransaction(context) ==
  IF Has(context, "transaction")
  THEN [tx |-> context["transaction"], hasTransaction |-> TRUE]
  ELSE [tx |-> "", hasTransaction |-> FALSE]

\* ITransaction.Closed()
Closed(tx) == tx = "closed_tx"

\* ------------------------------------------------------------------------
\* Transactional CRUD orchestrator
\* ------------------------------------------------------------------------

\* isPointer(rawResource)
isPointer(st) == st.ptr

\* panic(message): the call does not return.
Panic(st, message) == [st EXCEPT !.panic = message]

\* A mustGetOpenTransactionFromContext that hands back whatever it finds.
getTransactionFromContext(st) == st

\* mustGetOpenTransactionFromContext(context)
mustGetOpenTransactionFromContext(st) ==
  IF IsNil(st.ctx) THEN Panic(st, "Database function called without open transaction")
  ELSE IF ~contextGetTransaction(st.ctx).hasTransaction
          \/ Closed(contextGetTransaction(st.ctx).tx)
       THEN Panic(st, "Database function called without open transaction")
       ELSE st

\* Schema.ResourceFromMap: a fresh raw resource of the schema's registered
\* type, filled from the map.
ResourceFromMap(schemaID, data) ==
  IF schemaID \in rawTypes
  THEN [ok |-> TRUE, resource |-> resourceFromMap(data, ZeroResource)]
  ELSE [ok |-> FALSE, resource |-> ZeroResource]

\* A write-back of the row the storage holds, in place of the map sent to it.
writeBackStoredRow(st, schemaID, data) ==
  [st EXCEPT !.raw = resourceFromMap(MapGet(st.db, CtxResourceID(st.ctx), data), st.raw),
             !.trace = Append(st.trace,
                 WritebackEntry(schemaID, CtxResourceID(st.ctx), st.raw,
                                resourceFromMap(MapGet(st.db, CtxResourceID(st.ctx), data),
                                                st.raw),
                                MapGet(st.db, CtxResourceID(st.ctx), data)))]

\* resourceFromMap(mapFromContext, v): the caller's resource written in place.
writeBack(st, schemaID, data) ==
  [st EXCEPT !.raw = resourceFromMap(data, st.raw),
             !.trace = Append(st.trace,
                 WritebackEntry(schemaID, CtxResourceID(st.ctx), st.raw,
                                resourceFromMap(data, st.raw), data))]

\* A dispatch made whatever triggerEvents says.
triggerEventAlways(triggerEvents, event, st, iter) == HandleEvent(event, st, iter)

\* `if triggerEvents { HandleEvent(event, contextCopy) }`
triggerEvent(triggerEvents, event, st, iter) ==
  IF triggerEvents THEN HandleEvent(event, st, iter) ELSE st

\* The resource keys set on the request context itself, without a clone.
aliasForResource(st, schemaID, mapFromResource, resourceID) ==
  [st EXCEPT !.ctx = WithSchemaID(WithResourceID(WithResource(st.ctx, mapFromResource),
                                                 resourceID), schemaID)]

\* contextCopy := requestContext.Clone().WithResource(mapFromResource).
\*                  WithResourceID(id).WithSchemaID(schema.ID())
cloneForResource(st, schemaID, mapFromResource, resourceID) ==
  [st EXCEPT !.ref = Clone(st).ref,
             !.ctx = WithSchemaID(WithResourceID(WithResource(Clone(st).ctx, mapFromResource),
                                                 resourceID), schemaID)]

\* A create that drops what post_create returned.
createStoreSwallow(schemaID, st, triggerEvents, iter, mapFromContext) ==
  OnSuccess(txCreate(st, schemaID, mapFromContext),
            LAMBDA st3 : [triggerEvent(triggerEvents, "post_create",
                                       writeBack(st3, schemaID, mapFromContext), iter)
                            EXCEPT !.err = NoErr])

\* create, after the pre_create dispatch: storage, write-back, post_create.
createStore(schemaID, st, triggerEvents, iter, mapFromContext) ==
  OnSuccess(txCreate(st, schemaID, mapFromContext),
            LAMBDA st3 : triggerEvent(triggerEvents, "post_create",
                                      writeBack(st3, schemaID, mapFromContext), iter))

\* A create that stores the caller's resource as it was passed in.
createFromCaller(schemaID, st, triggerEvents, iter) ==
  OnSuccess(triggerEvent(triggerEvents, "pre_create",
                         cloneForResource(st, schemaID, resourceToMap(st.raw),
                                          resourceToMap(st.raw)["id"]), iter),
            LAMBDA st2 : createStore(schemaID, st2, triggerEvents, iter,
                                     resourceToMap(st2.raw)))

\* The caller's resource holding what the handlers left in the context.
sharedWithHandlers(st) == [st EXCEPT !.raw = resourceFromMap(contextGetMapResource(st.ctx), st.raw)]

\* A create whose pre_create handlers work on the caller's resource itself.
createPointerSharing(schemaID, st, triggerEvents, iter) ==
  OnSuccess(sharedWithHandlers(triggerEvent(triggerEvents, "pre_create",
                                            cloneForResource(st, schemaID, resourceToMap(st.raw),
                                                             resourceToMap(st.raw)["id"]), iter)),
            LAMBDA st2 : createStore(schemaID, st2, triggerEvents, iter,
                                     contextGetMapResource(st2.ctx)))

\* create, the resource having been passed by pointer.
createPointer(schemaID, st, triggerEvents, iter) ==
  OnSuccess(triggerEvent(triggerEvents, "pre_create",
                         cloneForResource(st, schemaID, resourceToMap(st.raw),
                                          resourceToMap(st.raw)["id"]), iter),
            LAMBDA st2 : createStore(schemaID, st2, triggerEvents, iter,
                                     contextGetMapResource(st2.ctx)))

\* Schema.create(rawResource, requestContext, triggerEvents)
\* A create that takes a resource passed by value as well.
createAnyValue(schemaID, st, triggerEvents, iter) ==
  IF mustGetOpenTransactionFromContext(st).panic # ""
  THEN mustGetOpenTransactionFromContext(st)
  ELSE createPointer(schemaID, st, triggerEvents, iter)

create(schemaID, st, triggerEvents, iter) ==
  IF ~isPointer(st) THEN [st EXCEPT !.err = ErrNotPointer]
  ELSE IF mustGetOpenTransactionFromContext(st).panic # ""
       THEN mustGetOpenTransactionFromContext(st)
       ELSE createPointer(schemaID, st, triggerEvents, iter)

\* An update that dispatches post_update before it writes the resource back.
updateStorePostFirst(schemaID, st, triggerEvents, iter, mapFromContext) ==
  OnSuccess(txUpdate(st, schemaID, mapFromContext),
    LAMBDA st3 : OnSuccess(triggerEvent(triggerEvents, "post_update", st3, iter),
      LAMBDA st4 : writeBack(st4, schemaID, mapFromContext)))

\* update, after the pre_update dispatch: storage, write-back, post_update.
updateStore(schemaID, st, triggerEvents, iter, mapFromContext) ==
  OnSuccess(txUpdate(st, schemaID, mapFromContext),
            LAMBDA st3 : triggerEvent(triggerEvents, "post_update",
                                      writeBack(st3, schemaID, mapFromContext), iter))

\* An update that goes on to the storage whatever pre_update returned.
updateDespitePre(schemaID, st, triggerEvents, iter) ==
  updateStore(schemaID,
              triggerEvent(triggerEvents, "pre_update",
                           cloneForResource(st, schemaID, resourceToMap(st.raw), st.raw["ID"]),
                           iter),
              triggerEvents, iter,
              contextGetMapResource(cloneForResource(st, schemaID, resourceToMap(st.raw),
                                                     st.raw["ID"]).ctx))

\* update, the resource having been passed by pointer.
updatePointer(schemaID, st, triggerEvents, iter) ==
  OnSuccess(triggerEvent(triggerEvents, "pre_update",
                         cloneForResource(st, schemaID, resourceToMap(st.raw), st.raw["ID"]),
                         iter),
            LAMBDA st2 : updateStore(schemaID, st2, triggerEvents, iter,
                                     contextGetMapResource(st2.ctx)))

\* Schema.update(rawResource, requestContext, triggerEvents)
update(schemaID, st, triggerEvents, iter) ==
  IF ~isPointer(st) THEN [st EXCEPT !.err = ErrNotPointer]
  ELSE IF mustGetOpenTransactionFromContext(st).panic # ""
       THEN mustGetOpenTransactionFromContext(st)
       ELSE updatePointer(schemaID, st, triggerEvents, iter)

\* Schema.ListRaw / listImpl: the listed rows as raw resources.
fetchedResources(schemaID, data) ==
  [i \in 1..Len(data) |-> ResourceFromMap(schemaID, data[i]).resource]

\* The loop of listImpl over the rows the storage returned in run state st:
\* the first row stops it when the schema has no raw type.
rawResources(schemaID, st, filter) ==
  OnSuccess(st, LAMBDA st1 :
    IF listedRows(st1.db, filter) # <<>> /\ ~ResourceFromMap(schemaID, listedRows(st1.db, filter)[1]).ok
    THEN [st1 EXCEPT !.err = makeErrMissingType(schemaID)]
    ELSE st1)

\* contextCopy = contextCopy.WithResource(mapFromResource).
\*                 WithSchemaID(schema.ID()).WithResourceID(resourceID)
contextForRow(st, schemaID, resource) ==
  [st EXCEPT !.ctx = WithResourceID(WithSchemaID(WithResource(st.ctx, resourceToMap(resource)),
                                                 schemaID), resource["ID"])]

\* One row of Schema.delete: pre_delete, storage delete, post_delete.
deleteRow(schemaID, st, resource, triggerEvents, iter) ==
  OnSuccess(triggerEvent(triggerEvents, "pre_delete",
                         contextForRow(st, schemaID, resource), iter),
    LAMBDA st2 : OnSuccess(txDelete(st2, schemaID, resource["ID"]),
      LAMBDA st3 : triggerEvent(triggerEvents, "post_delete", st3, iter)))

\* The run state next, holding the error of prev when prev holds one.
carryingError(prev, next) == IF prev.err # NoErr THEN [next EXCEPT !.err = prev.err] ELSE next

\* A delete loop that goes on to the next row after a row failed, and
\* returns the first error.
RECURSIVE deleteLoopPastFailure(_, _, _, _, _, _)
deleteLoopPastFailure(fetched, i, schemaID, st, triggerEvents, iter) ==
  IF i > Len(fetched) THEN st
  ELSE deleteLoopPastFailure(fetched, i + 1, schemaID,
         carryingError(st, deleteRow(schemaID, [st EXCEPT !.err = NoErr], fetched[i],
                                     triggerEvents, iter)),
         triggerEvents, iter)

\* A delete loop that handles the first fetched row only.
deleteLoopFirstOnly(fetched, i, schemaID, st, triggerEvents, iter) ==
  IF i > Len(fetched) \/ i > 1 THEN st
  ELSE deleteRow(schemaID, st, fetched[i], triggerEvents, iter)

\* The loop of Schema.delete, from fetched row i.
RECURSIVE deleteLoop(_, _, _, _, _, _)
deleteLoop(fetched, i, schemaID, st, triggerEvents, iter) ==
  IF i > Len(fetched) THEN st
  ELSE OnSuccess(deleteRow(schemaID, st, fetched[i], triggerEvents, iter),
                 LAMBDA st4 : deleteLoop(fetched, i + 1, schemaID, st4, triggerEvents, iter))

\* delete, an open transaction having been found in the context.
deleteInTransaction(schemaID, st, filter, triggerEvents, iter) ==
  OnSuccess(rawResources(schemaID, txList(Clone(st), schemaID, filter), filter),
            LAMBDA st1 : deleteLoop(fetchedResources(schemaID, listedRows(st1.db, filter)), 1,
                                    schemaID, st1, triggerEvents, iter))

\* Schema.delete(filter, requestContext, triggerEvents)
delete(schemaID, st, filter, triggerEvents, iter) ==
  IF mustGetOpenTransactionFromContext(st).panic # ""
  THEN mustGetOpenTransactionFromContext(st)
  ELSE deleteInTransaction(schemaID, st, filter, triggerEvents, iter)

\* What a read returned beside its error.
NoResult == [resources |-> <<>>, count |-> 0, state |-> ""]

\* `return schema.ResourceFromMap(data)` of fetchImplFilter on the row the
\* storage returned.
fetchedResource(schemaID, st, filter) ==
  IF ResourceFromMap(schemaID, listedRows(st.db, filter)[1]).ok
  THEN [st EXCEPT !.result.resources = <<ResourceFromMap(schemaID, listedRows(st.db, filter)[1]).resource>>]
  ELSE [st EXCEPT !.err = makeErrMissingType(schemaID)]

\* `if err == transaction.ErrResourceNotFound { return nil, goext.ErrResourceNotFound }`
notFound(st) == IF st.err = TxErrResourceNotFound THEN [st EXCEPT !.err = ErrResourceNotFound] ELSE st

\* A listImpl that hands back a nil entry for a row it has no type for.
listImplSkippingTypes(schemaID, st, filter, lock) ==
  IF mustGetOpenTransactionFromContext(st).panic # ""
  THEN mustGetOpenTransactionFromContext(st)
  ELSE OnSuccess(IF lock THEN txLockList(st, schemaID, filter) ELSE txList(st, schemaID, filter),
         LAMBDA st1 : [st1 EXCEPT !.result.resources =
                          fetchedResources(schemaID, listedRows(st1.db, filter))])

\* Schema.listImpl(requestContext, list), list being tx.List or tx.LockList
listImpl(schemaID, st, filter, lock) ==
  IF mustGetOpenTransactionFromContext(st).panic # ""
  THEN mustGetOpenTransactionFromContext(st)
  ELSE OnSuccess(rawResources(schemaID, IF lock THEN txLockList(st, schemaID, filter) ELSE txList(st, schemaID, filter), filter),
         LAMBDA st1 : [st1 EXCEPT !.result.resources =
                          fetchedResources(schemaID, listedRows(st1.db, filter))])

\* Schema.rawToResource: the resource type of the schema around a raw
\* resource.
rawToResource(schemaID, raw) ==
  [ok |-> schemaID \in types, resource |-> [ResourceBase |-> schemaID, Raw |-> raw]]

RECURSIVE resourceList(_, _)
resourceList(schemaID, rawList) ==
  IF rawList = <<>> THEN <<>>
  ELSE <<rawToResource(schemaID, Head(rawList)).resource>> \o resourceList(schemaID, Tail(rawList))

\* Schema.rawListToResourceList on what ListRaw returned in run state st: an
\* empty list is handed back as it is.
rawListToResourceList(schemaID, st) ==
  IF st.panic # "" \/ st.err # NoErr \/ st.result.resources = <<>> THEN st
  ELSE IF schemaID \notin types
    THEN [st EXCEPT !.err = makeErrMissingType(schemaID), !.result.resources = <<>>]
  ELSE [st EXCEPT !.result.resources = resourceList(schemaID, st.result.resources)]

\* Schema.List and Schema.LockList
list(schemaID, st, filter, lock) == rawListToResourceList(schemaID, listImpl(schemaID, st, filter, lock))

\* A fetchImplFilter that hands every storage error on as it is.
fetchImplFilterPlain(schemaID, st, filter, lock) ==
  IF mustGetOpenTransactionFromContext(st).panic # ""
  THEN mustGetOpenTransactionFromContext(st)
  ELSE OnSuccess(IF lock THEN txLockFetch(st, schemaID, filter) ELSE txFetch(st, schemaID, filter),
         LAMBDA st1 : fetchedResource(schemaID, st1, filter))

\* Schema.fetchImplFilter(filter, requestContext, fetch), fetch being
\* tx.Fetch or tx.LockFetch
fetchImplFilter(schemaID, st, filter, lock) ==
  IF mustGetOpenTransactionFromContext(st).panic # ""
  THEN mustGetOpenTransactionFromContext(st)
  ELSE OnSuccess(notFound(IF lock THEN txLockFetch(st, schemaID, filter) ELSE txFetch(st, schemaID, filter)),
         LAMBDA st1 : fetchedResource(schemaID, st1, filter))

\* Schema.fetch(fetch) on what the raw fetch returned in run state st.
fetch(schemaID, st) ==
  IF st.panic # "" \/ st.err # NoErr THEN st
  ELSE IF ~rawToResource(schemaID, st.result.resources[1]).ok
    THEN [st EXCEPT !.err = makeErrMissingType(schemaID), !.result.resources = <<>>]
  ELSE [st EXCEPT !.result.resources = <<rawToResource(schemaID, st.result.resources[1]).resource>>]

\* Schema.StateFetchRaw(id, requestContext)
stateFetchRaw(schemaID, st, id) ==
  IF mustGetOpenTransactionFromContext(st).panic # ""
  THEN mustGetOpenTransactionFromContext(st)
  ELSE OnSuccess(txStateFetch(st, schemaID, [id |-> id]),
         LAMBDA st1 : [st1 EXCEPT !.result.state =
                          ResourceState(listedRows(st1.db, [id |-> id])[1])])

\* A Count that announces itself to the handlers of pre_update first.
countAfterEvent(schemaID, st, filter) ==
  IF mustGetOpenTransactionFromContext(st).panic # ""
  THEN mustGetOpenTransactionFromContext(st)
  ELSE OnSuccess(HandleEvent("pre_update", Clone(st), [prio |-> <<2, 10>>, schema |-> <<"network", "subnet">>]),
         LAMBDA st0 : OnSuccess(txCount(st0, schemaID, filter),
           LAMBDA st1 : [st1 EXCEPT !.result.count = Len(listedRows(st1.db, filter))]))

\* Schema.Count(filter, requestContext)
count(schemaID, st, filter) ==
  IF mustGetOpenTransactionFromContext(st).panic # ""
  THEN mustGetOpenTransactionFromContext(st)
  ELSE OnSuccess(txCount(st, schemaID, filter),
         LAMBDA st1 : [st1 EXCEPT !.result.count = Len(listedRows(st1.db, filter))])

\* Schema.DbStateUpdateRaw(rawResource, requestContext, state): the map of
\* the resource is built before the transaction is looked up.
dbStateUpdateRaw(schemaID, st) ==
  IF mustGetOpenTransactionFromContext(st).panic # ""
  THEN mustGetOpenTransactionFromContext(st)
  ELSE txStateUpdate(st, schemaID, resourceToMap(st.res))

\* ------------------------------------------------------------------------
\* Property filter (schema/property_filter.go)
\* ------------------------------------------------------------------------

\* A []string: nil, or a slice holding elems (which may be none).
NilSlice == [nil |-> TRUE, elems |-> <<>>]

Slice(elems) == [nil |-> FALSE, elems |-> elems]

\* The sequences over S of length n at most.
RECURSIVE SeqsUpTo(_, _)
SeqsUpTo(S, n) ==
  IF n = 0 THEN {<<>>}
  ELSE SeqsUpTo(S, n - 1) \cup {Append(q, x) : q \in {r \in SeqsUpTo(S, n - 1) : Len(r) = n - 1}, x \in S}

\* Property names the policies list, and the keys of the data filtered:
\* "c" is a key no policy names.
Properties == {"a", "b"}

DataKeys == Properties \cup {"c"}

PropertyLists == {NilSlice} \cup {Slice(q) : q \in SeqsUpTo(Properties, MaxProps)}

KeyLists == {Slice(q) : q \in SeqsUpTo(DataKeys, MaxProps)}

DataMaps == UNION {[S -> {1, 2}] : S \in SUBSET DataKeys}

\* &FilterFactory{}
NewFilterFactory == [visible |-> NilSlice, hidden |-> NilSlice]

\* sliceToSet(keys)
sliceToSet(keys) == {keys.elems[i] : i \in DOMAIN keys.elems}

\* FilterFactory.getFilterType()
getFilterType(f) ==
  IF f.visible.nil
  THEN IF f.hidden.nil THEN "All" ELSE "Hidden"
  ELSE IF f.hidden.nil THEN "Visible" ELSE "Invalid"

\* A filter strategy; NilFilter is the nil *Filter.
Strategy(type, properties) == [type |-> type, properties |-> properties]

NilFilter == Strategy("nil", {})

FilterErr == Err("filter", "Cannot have filter with both visible and hidden properties", "", 0, 0)

\* FilterFactory.createFilterStrategy()
createFilterStrategy(f) ==
  CASE getFilterType(f) = "All" -> [strategy |-> Strategy("includeAllFilter", {}), err |-> NoErr]
    [] getFilterType(f) = "Visible" ->
         [strategy |-> Strategy("visibleFilter", sliceToSet(f.visible)), err |-> NoErr]
    [] getFilterType(f) = "Hidden" ->
         [strategy |-> Strategy("hiddenFilter", sliceToSet(f.hidden)), err |-> NoErr]
    [] OTHER -> [strategy |-> NilFilter, err |-> FilterErr]

\* FilterFactory.CreateFilterFromProperties(visible, hidden): the factory it
\* leaves, the filter and the error it returns.
CreateFilterFromProperties(f, visible, hidden) ==
  [factory |-> [visible |-> visible, hidden |-> hidden],
   filter |-> createFilterStrategy([visible |-> visible, hidden |-> hidden]).strategy,
   err |-> createFilterStrategy([visible |-> visible, hidden |-> hidden]).err]

\* CreateExcludeAllFilter()
CreateExcludeAllFilter == Strategy("excludeAllFilter", {})

\* The goroutines that share one FilterFactory.
Callers == {1, 2}

\* Arguments the goroutines pass: nil, or a list of one property.
CallerLists == {NilSlice, Slice(<<"a">>), Slice(<<"b">>)}

\* A goroutine in CreateFilterFromProperties: pc is the statement it stands
\* before, visible and hidden its arguments, seen the f.visible that
\* getFilterType read, type what getFilterType returned, filter and err what
\* the call returned.
Caller(pc, visible, hidden, seen, type, filter, e) ==
  [pc |-> pc, visible |-> visible, hidden |-> hidden, seen |-> seen, type |-> type,
   filter |-> filter, err |-> e]

IdleCaller == Caller("idle", NilSlice, NilSlice, NilSlice, "", NilFilter, NoErr)

\* The switch of createFilterStrategy, getFilterType having returned type:
\* the properties are read from the factory as it is now.
strategyOfType(type, f) ==
  CASE type = "All" -> [strategy |-> Strategy("includeAllFilter", {}), err |-> NoErr]
    [] type = "Visible" -> [strategy |-> Strategy("visibleFilter", sliceToSet(f.visible)), err |-> NoErr]
    [] type = "Hidden" -> [strategy |-> Strategy("hiddenFilter", sliceToSet(f.hidden)), err |-> NoErr]
    [] OTHER -> [strategy |-> NilFilter, err |-> FilterErr]

\* ------------------------------------------------------------------------
\* Database binding (Begin, BeginTx)
\* ------------------------------------------------------------------------

\* What the underlying database returns from Begin and BeginTx: a
\* transaction, the nil interface or a nil pointer in the interface, with an
\* error or without.
RawTransactions == {"tx", "nil", "typed nil"}

DbErr == Err("db", "begin failed", "", 0, 0)

NilTxErr == Err("db", "Creating transaction failed: the database returned nil", "", 0, 0)

RawBegins == [t : RawTransactions, err : {NoErr, DbErr}]

\* What Begin and BeginTx return: handle tells whether the ITransaction is a
\* &Transaction{t} (FALSE: nil), t is the transaction it wraps.
Begun(handle, t, e) == [handle |-> handle, t |-> t, err |-> e]

\* handleBeginError(t, err)
handleBeginError(t, e) ==
  IF e # NoErr THEN Begun(FALSE, "nil", e)
  ELSE IF t \in {"nil", "typed nil"} THEN Begun(FALSE, "nil", NilTxErr)
  ELSE Begun(TRUE, t, NoErr)

\* t, _ := db.db.Begin(); return &Transaction{t}, nil
wrapBegun(t, e) == Begun(TRUE, t, NoErr)

\* Database.Begin and Database.BeginTx are defined twice in database.go:
\* definition 1 hands the result of the database to handleBeginError,
\* definition 2 wraps the transaction and drops the error.
Definitions == {1, 2}

DatabaseBegin(definition, raw) ==
  IF definition = 1 THEN handleBeginError(raw.t, raw.err) ELSE wrapBegun(raw.t, raw.err)

\* A call of Begin or BeginTx: options is "nil" for a nil *TxOptions, which
\* BeginTx dereferences; panics tells whether it did.
BeginCall(name, definition, options, raw, panics, out) ==
  [name |-> name, definition |-> definition, options |-> options, raw |-> raw,
   panics |-> panics, out |-> out]

NoBeginCall ==
  BeginCall("none", 1, "set", [t |-> "nil", err |-> NoErr], FALSE, Begun(FALSE, "nil", NoErr))

\* Strategies that all keep the keys their properties name.
filterByMembership(strategy, key) ==
  CASE strategy.type = "includeAllFilter" -> TRUE
    [] strategy.type = "excludeAllFilter" -> FALSE
    [] OTHER -> key \in strategy.properties

\* FilterStrategy.Filter(key) of the four strategies
Filter(strategy, key) ==
  CASE strategy.type = "includeAllFilter" -> TRUE
    [] strategy.type = "excludeAllFilter" -> FALSE
    [] strategy.type = "visibleFilter" -> key \in strategy.properties
    [] OTHER -> key \notin strategy.properties

\* Filter.RemoveHiddenKeysFromMap(data): a map made by the call
RemoveHiddenKeysFromMap(strategy, data) ==
  [key \in {k \in DOMAIN data : Filter(strategy, k)} |-> data[key]]

\* Filter.RemoveHiddenKeysFromSlice(data): a slice made by the call
RemoveHiddenKeysFromSlice(strategy, data) ==
  Slice(SelectSeq(data.elems, LAMBDA key : Filter(strategy, key)))

\* Filter.IsForbidden(key)
IsForbidden(strategy, key) == ~Filter(strategy, key)

\* An AllowsAll that is true of every filter but the one that excludes all.
allowsAllButExcludeAll(strategy) == strategy.type # "excludeAllFilter"

\* Filter.AllowsAll()
AllowsAll(strategy) == strategy.type = "includeAllFilter"

\* A call on the factory or on a filter: its arguments as the caller holds
\* them once it returned, and what it returned.
FilterCall(name, visible, hidden, data, keys, key, e, outMap, outKeys, outBool) ==
  [name |-> name, visible |-> visible, hidden |-> hidden, data |-> data, keys |-> keys, key |-> key, err |-> e, outMap |-> outMap, outKeys |-> outKeys, outBool |-> outBool]

NoFilterCall == FilterCall("none", NilSlice, NilSlice, <<>>, NilSlice, "", NoErr, <<>>, NilSlice, FALSE)

\* ------------------------------------------------------------------------
\* Resource marshaler over typed fields (resourceFromContext, resourceToMap)
\* ------------------------------------------------------------------------

\* A Go value held in an attribute map or in a struct field: kind is its
\* dynamic type; s, n and frac hold a string, the whole part of a number and
\* its tenths; valid is the validity flag of a nullable wrapper.
Value(kind, s, n, frac, valid) == [kind |-> kind, s |-> s, n |-> n, frac |-> frac, valid |-> valid]

\* The nil interface value (a JSON null decodes to it).
Nil == Value("nil", "", 0, 0, FALSE)

StringValue(s) == Value("string", s, 0, 0, FALSE)

IntValue(n) == Value("int", "", n, 0, FALSE)

Float64Value(n, frac) == Value("float64", "", n, frac, FALSE)

\* goext.NullString{Value: s, Valid: valid}
NullStringValue(s, valid) == Value("goext.NullString", s, 0, 0, valid)

\* goext.NullInt{Value: n, Valid: valid}
NullIntValue(n, valid) == Value("goext.NullInt", "", n, 0, valid)

\* The nullable wrapper types.
NullTypes == {"goext.NullString", "goext.NullInt"}

\* reflect.Zero of a field type.
zeroValue(type) ==
  CASE type = "string" -> StringValue("")
    [] type = "int" -> IntValue(0)
    [] type = "goext.NullString" -> NullStringValue("", FALSE)
    [] OTHER -> NullIntValue(0, FALSE)

\* A struct field: its name, its `db` tag and its type.
StructField(name, tag, type) == [name |-> name, tag |-> tag, type |-> type]

\* The raw type registered for the schema: two scalar fields and two
\* nullable wrappers.
RawNetwork ==
  <<StructField("ID", "id", "string"), StructField("MTU", "mtu", "int"),
    StructField("Name", "name", "goext.NullString"), StructField("Vlan", "vlan", "goext.NullInt")>>

FieldNames(type) == {type[i].name : i \in DOMAIN type}

FieldTags(type) == {type[i].tag : i \in DOMAIN type}

FieldNamed(type, name) == type[CHOOSE i \in DOMAIN type : type[i].name = name]

FieldTagged(type, tag) == type[CHOOSE i \in DOMAIN type : type[i].tag = tag]

\* reflect.New(resourceType)
newResource(type) == [name \in FieldNames(type) |-> zeroValue(FieldNamed(type, name).type)]

\* A JSON text: null, a string or a number.
Json(t, s, n, frac) == [t |-> t, s |-> s, n |-> n, frac |-> frac]

JsonNull == Json("null", "", 0, 0)

\* MarshalJSON of a nullable wrapper: the wrapped value when valid, null
\* otherwise.
MarshalJSON(value) ==
  IF ~value.valid THEN JsonNull
  ELSE IF value.kind = "goext.NullString" THEN Json("string", value.s, 0, 0)
  ELSE Json("number", "", value.n, 0)

\* json.Marshal(data[property.ID])
jsonMarshal(value) ==
  CASE value.kind = "nil" -> JsonNull
    [] value.kind = "string" -> Json("string", value.s, 0, 0)
    [] value.kind \in {"int", "float64"} -> Json("number", "", value.n, value.frac)
    [] OTHER -> MarshalJSON(value)

\* What json.Unmarshal returns: the value decoded, or an error.
Decoded(value, ok) == [value |-> value, ok |-> ok]

\* UnmarshalJSON of a nullable wrapper: null leaves it invalid, a value of
\* the wrapped type makes it valid, any other text is an error.
UnmarshalJSON(json, type) ==
  CASE json.t = "null" -> Decoded(zeroValue(type), TRUE)
    [] json.t = "string" /\ type = "goext.NullString" -> Decoded(NullStringValue(json.s, TRUE), TRUE)
    [] json.t = "number" /\ type = "goext.NullInt" /\ json.frac = 0 -> Decoded(NullIntValue(json.n, TRUE), TRUE)
    [] OTHER -> Decoded(zeroValue(type), FALSE)

\* json.Unmarshal([]byte(fieldJSON), &fieldInterface)
jsonUnmarshal(json, type) == UnmarshalJSON(json, type)

\* The value a scalar field holds after field.Set / field.SetInt: a float64
\* given for an int field is truncated, a nil leaves the field as it was.
setScalar(field, type, value) ==
  IF value = Nil THEN field
  ELSE IF value.kind # type /\ type = "int" /\ value.kind = "float64" THEN IntValue(value.n)
  ELSE value

\* What the marshaler returns for a resource: the struct, and whether the
\* conversion failed.
Marshaled(resource, ok) == [resource |-> resource, ok |-> ok]

\* The attribute of the map under a key, nil when the key is absent.
attribute(data, key) == IF key \in DOMAIN data THEN data[key] ELSE Nil

\* The value of one field after the loop body of resourceFromContext.
fieldFromContext(field, data) ==
  IF field.type \in NullTypes
  THEN jsonUnmarshal(jsonMarshal(attribute(data, field.tag)), field.type)
  ELSE Decoded(setScalar(zeroValue(field.type), field.type, attribute(data, field.tag)), TRUE)

\* env.resourceFromContext for a schema whose raw type is registered, its
\* fields tagged with properties of the schema: data is context["resource"].
typedResourceFromContext(type, data) ==
  Marshaled([name \in FieldNames(type) |-> fieldFromContext(FieldNamed(type, name), data).value],
            \A name \in FieldNames(type) : fieldFromContext(FieldNamed(type, name), data).ok)

\* env.resourceToMap(&wrapper): the switch over the pointers to the nullable
\* wrappers.
wrapperToMap(value) ==
  IF ~value.valid THEN Nil
  ELSE IF value.kind = "goext.NullString" THEN StringValue(value.s)
  ELSE IntValue(value.n)

\* env.resourceToMap(&resourceFieldInterface): the argument points to an
\* interface{}, whose reflect Kind is Interface and never Struct, so that the
\* value of the field is returned as it is, a nullable wrapper included.
fieldToMap(value) == value

\* env.resourceToMap(resource) for a pointer to a struct.
structToMap(type, resource) ==
  [tag \in FieldTags(type) |-> fieldToMap(resource[FieldTagged(type, tag).name])]

\* The value of one field after the loop body of updateResourceFromContextR;
\* panics is TRUE where reflect's Set panics (a float64 for an int field).
Updated(value, panics) == [value |-> value, panics |-> panics]

fieldFromUpdate(field, held, data) ==
  IF field.type \in NullTypes
  THEN IF attribute(data, field.tag) # Nil
       THEN IF attribute(data, field.tag).kind = field.type
            THEN Updated(attribute(data, field.tag), FALSE)
            ELSE Updated([attribute(data, field.tag) EXCEPT !.kind = field.type, !.valid = TRUE], FALSE)
       ELSE Updated([held EXCEPT !.valid = FALSE], FALSE)
  ELSE IF attribute(data, field.tag) = Nil THEN Updated(held, FALSE)
  ELSE Updated(attribute(data, field.tag), attribute(data, field.tag).kind # field.type)

\* env.updateResourceFromContextR(resource, resourceData)
updateResourceFromContextR(type, resource, data) ==
  [resource |-> [name \in FieldNames(type) |->
                   fieldFromUpdate(FieldNamed(type, name), resource[name], data).value],
   panics |-> \E name \in FieldNames(type) :
                   fieldFromUpdate(FieldNamed(type, name), resource[name], data).panics]

\* The values an attribute map holds under each key of the schema: values of
\* the declared type, a float64 for an integer, JSON null, and the wrappers
\* themselves.
AttributeValues(tag) ==
  CASE tag = "id" -> {StringValue("a"), Nil}
    [] tag = "mtu" -> {IntValue(7), Float64Value(7, 0), Float64Value(7, 5), Nil}
    [] tag = "name" -> {StringValue("n"), Nil, NullStringValue("n", TRUE), NullStringValue("", FALSE)}
    [] OTHER -> {IntValue(5), Nil, NullIntValue(5, TRUE)}

\* The attribute maps: any subset of the keys, each with one of its values.
AttributeMaps ==
  UNION {{m \in [keys -> UNION {AttributeValues(tag) : tag \in keys}] :
            \A tag \in keys : m[tag] \in AttributeValues(tag)} : keys \in SUBSET FieldTags(RawNetwork)}

\* A call of the marshaler: the map and the wrapper it was given, the
\* resource it made of the map, the map it made of the resource, the value
\* it made of the wrapper.
MarshalCall(name, data, wrapper, resource, ok, panics, out, outValue) ==
  [name |-> name, data |-> data, wrapper |-> wrapper, resource |-> resource, ok |-> ok,
   panics |-> panics, out |-> out, outValue |-> outValue]

NoMarshalCall == MarshalCall("none", <<>>, Nil, newResource(RawNetwork), TRUE, FALSE, <<>>, Nil)

\* ------------------------------------------------------------------------
\* Auth (IsAdminContext)
\* ------------------------------------------------------------------------

\* A value held under "role" or "auth": its dynamic type, and the name of
\* the role or of the tenant the authorization is for.
Identity(type, name) == [type |-> type, name |-> name]

\* (*schema.Role).Match(name)
Match(role, name) == role.name = name

\* schema.Authorization.TenantName()
TenantName(auth) == auth.name

\* What IsAdminContext returns, with the warning it logged.
Answer(admin, warning) == [admin |-> admin, warning |-> warning]

\* An IsAdminContext that trusts the role alone.
isAdminByRole(context) ==
  IF ~Has(context, "role") THEN Answer(FALSE, "IsAdmin: missing 'role' field in context")
  ELSE IF context["role"].type # "*schema.Role"
    THEN Answer(FALSE, "IsAdmin: invalid type of 'role' field in context")
  ELSE IF ~Has(context, "auth") THEN Answer(FALSE, "IsAdmin: missing 'auth' field in context")
  ELSE IF context["auth"].type # "schema.Authorization"
    THEN Answer(FALSE, "IsAdmin: invalid type of 'auth' field in context")
  ELSE Answer(Match(context["role"], "admin"), "")

\* Auth.IsAdminContext(context)
IsAdminContext(context) ==
  IF ~Has(context, "role") THEN Answer(FALSE, "IsAdmin: missing 'role' field in context")
  ELSE IF context["role"].type # "*schema.Role"
    THEN Answer(FALSE, "IsAdmin: invalid type of 'role' field in context")
  ELSE IF ~Has(context, "auth") THEN Answer(FALSE, "IsAdmin: missing 'auth' field in context")
  ELSE IF context["auth"].type # "schema.Authorization"
    THEN Answer(FALSE, "IsAdmin: invalid type of 'auth' field in context")
  ELSE Answer(Match(context["role"], "admin") /\ TenantName(context["auth"]) = "admin", "")

\* The values the identity middleware, or anyone else, leaves under "role".
RoleValues ==
  {Identity("*schema.Role", "admin"), Identity("*schema.Role", "Member"),
   Identity("schema.Role", "admin"), Identity("string", "admin")}

\* The values left under "auth".
AuthValues ==
  {Identity("schema.Authorization", "admin"), Identity("schema.Authorization", "demo"),
   Identity("string", "admin"), Identity("nil", "")}

\* The contexts IsAdminContext is asked about: each key present or absent.
AuthContexts ==
  UNION {{c \in [keys -> RoleValues \cup AuthValues] :
            /\ "role" \in keys => c["role"] \in RoleValues
            /\ "auth" \in keys => c["auth"] \in AuthValues} : keys \in SUBSET {"role", "auth"}}

AuthCall(name, context, admin, warning) == [name |-> name, context |-> context, admin |-> admin, warning |-> warning]

NoAuthCall == AuthCall("none", <<>>, FALSE, "")

\* ------------------------------------------------------------------------
\* Requests
\* ------------------------------------------------------------------------

\* The context an inbound request arrives with.
InboundContext == [transaction |-> "tx", note |-> "inbound"]

\* Contexts a caller passes to the orchestrator: with an open transaction,
\* with a closed one, with none, and nil.
RequestContexts ==
  {InboundContext, [transaction |-> "closed_tx", note |-> "inbound"], [note |-> "inbound"],
   NilContext}

\* The schema object the requests of one behaviour are made on.
RequestSchema(fam) == IF fam = "untyped" THEN UntypedSchema ELSE "network"

\* The name a request on the untyped schema is recorded under.
UntypedName ==
  [ListRaw |-> "port.ListRaw", LockListRaw |-> "port.LockListRaw", List |-> "port.List",
   LockList |-> "port.LockList", FetchRaw |-> "port.FetchRaw",
   LockFetchRaw |-> "port.LockFetchRaw", FetchFilterRaw |-> "port.FetchFilterRaw",
   Fetch |-> "port.Fetch", LockFetch |-> "port.LockFetch", FetchFilter |-> "port.FetchFilter",
   CreateRaw |-> "port.CreateRaw", UpdateRaw |-> "port.UpdateRaw",
   DeleteRaw |-> "port.DeleteRaw"]

OpName(fam, name) ==
  IF fam = "untyped" /\ name \in DOMAIN UntypedName THEN UntypedName[name] ELSE name

Request(name, event, resource, pointer, context, filter, triggerEvents, failAt) ==
  [name |-> OpName(family, name), event |-> event, resource |-> resource, pointer |-> pointer,
   ctx |-> context, filter |-> filter, triggerEvents |-> triggerEvents, failAt |-> failAt]

NoRequest == Request("none", "", ZeroResource, TRUE, EmptyMap, EmptyMap, FALSE, 0)

\* The Environment that serves the requests, holding the registries loaded.
Environment(eventHandlers, schemaEventHandlers) ==
  [NewEnvironment EXCEPT !.handlers = eventHandlers, !.schemaHandlers = schemaEventHandlers]

\* The run state a request starts in: env is the environment it runs on,
\* ctx is the context the code works on,
\* ref tells whether that is the caller's own map ("request") or a clone
\* ("copy"); res is the typed resource of the running schema dispatch, raw
\* the caller's typed resource; scall counts the storage calls made, the
\* failAt-th of which fails (0: none does); ptr tells whether the caller
\* passed its resource by pointer.
StartRun(context, resource, pointer, storage, failAt) ==
  [env |-> Environment(handlers, schemaHandlers),
   ctx |-> context, ref |-> "request", res |-> ZeroResource, raw |-> resource,
   ptr |-> pointer,
   trace |-> <<>>, err |-> NoErr, panic |-> "", result |-> NoResult,
   call |-> 0, db |-> storage, scall |-> 0,
   failAt |-> failAt]

\* Iteration orders of the Go maps ranged over during one request.
\* The orchestrator always names the schema in the context, so only a custom
\* action ranges over the schemas of an event.
IterOrders(fam) ==
  [prio : Perms(Priorities),
   schema : IF fam = "action" THEN Perms(FamilySchemas(fam))
            ELSE {CHOOSE p \in Perms(FamilySchemas(fam)) : TRUE}]

\* Contexts a custom action is dispatched with.
ActionResources == {[id |-> "r1"], [id |-> "r1", status |-> DIP]}

ActionContexts ==
  {MapPut(InboundContext, "resource", r) : r \in ActionResources} \cup
  {MapPut(MapPut(InboundContext, "resource", r), "schema_id", s) :
     r \in ActionResources, s \in Schemas \cup {UnknownSchema}}

\* Typed resources a caller passes to CreateRaw and to UpdateRaw.
CreateInputs == {[ID |-> "r3", Status |-> s] : s \in {"", DIP}}

UpdateInputs == {[ID |-> "r1", Status |-> s] : s \in {"ACTIVE", DIP}}

\* Filters a caller passes to DeleteRaw: every row, one row, no row.
DeleteFilters == {EmptyMap, [id |-> "r2"], [id |-> "r9"]}

\* The storage calls, of the n a request can make, that an input makes fail
\* (0: none): a request that reaches no storage call has none to fail.
FailPoints(context, pointer, n) == IF context = InboundContext /\ pointer THEN 0..n ELSE {0}

\* Storage calls a delete with this filter makes when nothing fails.
DeleteCalls(rows, filter) == 1 + Len(listedRows(rows, filter))

InitialDb == [id \in {"r1", "r2"} |-> [id |-> id, status |-> IF id = "r1" THEN "ACTIVE" ELSE DIP]]

Init ==
  /\ family \in Families
  /\ handlers = EmptyMap
  /\ schemaHandlers = EmptyMap
  /\ nreg = 0
  /\ db = InitialDb
  /\ requestContext = InboundContext
  /\ rawResource = ZeroResource
  /\ op = NoRequest
  /\ contextCopy = EmptyMap
  /\ trace = <<>>
  /\ err = NoErr
  /\ result = NoResult
  /\ envs = <<NewEnvironment>>
  /\ uuids = 0
  /\ procs = <<>>
  /\ lastCall = NoCall
  /\ filtering = [factory |-> NewFilterFactory, filter |-> NilFilter, call |-> NoFilterCall]
  /\ marshaling = NoMarshalCall
  /\ authorizing = NoAuthCall
  /\ callers = [c \in Callers |-> IdleCaller]
  /\ beginning = NoBeginCall
  /\ panicked = ""

\* A request returned in run state st: what it leaves to its caller.
Returned(st, request) ==
  /\ op' = request
  /\ requestContext' = (IF st.ref = "request" THEN st.ctx ELSE request.ctx)
  /\ rawResource' = st.raw
  /\ db' = st.db
  /\ contextCopy' = st.ctx
  /\ trace' = st.trace
  /\ err' = st.err
  /\ result' = st.result
  /\ panicked' = st.panic

RegisterEventHandler ==
  /\ op = NoRequest
  /\ nreg < MaxReg
  /\ \E event \in FamilyEvents(family), h \in Kinds, priority \in Priorities :
       handlers' = registerEventHandler(handlers, event, h, priority)
  /\ nreg' = nreg + 1
  /\ UNCHANGED <<family, schemaHandlers, db, requestContext, rawResource, op, contextCopy,
                 trace, err, result, envs, uuids, procs, lastCall, filtering, unitVars, panicked>>

RegisterSchemaEventHandler ==
  /\ op = NoRequest
  /\ nreg < MaxReg
  /\ \E schemaID \in FamilySchemas(family), event \in FamilyEvents(family),
        h \in Kinds, priority \in Priorities :
       schemaHandlers' = registerSchemaEventHandler(schemaHandlers, schemaID, event, h, priority)
  /\ nreg' = nreg + 1
  /\ UNCHANGED <<family, handlers, db, requestContext, rawResource, op, contextCopy,
                 trace, err, result, envs, uuids, procs, lastCall, filtering, unitVars, panicked>>

\* Schema.RegisterResourceEventHandler(event, schemaHandler, priority) on the
\* schema schemaID: a panic ends the program with the registries as they were.
registerResourceEventHandler(schemaID, event, h, priority) ==
  IF isCustomAction(schemaID, event)
  THEN /\ op' = Request("RegisterResourceEventHandler", event, ZeroResource, TRUE,
                        requestContext, EmptyMap, FALSE, 0)
       /\ panicked' = "Cannot register an event handler"
       /\ UNCHANGED <<schemaHandlers, nreg>>
  ELSE /\ schemaHandlers' =
            registerSchemaEventHandler(schemaHandlers, schemaID, event, h, priority)
       /\ nreg' = nreg + 1
       /\ UNCHANGED <<op, panicked>>

RegisterResourceEventHandler ==
  /\ op = NoRequest
  /\ nreg < MaxReg
  /\ \E schemaID \in ResourceSchemas(family), event \in FamilyEvents(family), h \in Kinds,
        priority \in Priorities :
       registerResourceEventHandler(schemaID, event, h, priority)
  /\ UNCHANGED <<family, handlers, db, requestContext, rawResource, contextCopy, trace, err,
                 result, envs, uuids, procs, lastCall, filtering, unitVars>>

\* The server dispatches a custom action: HandleEvent(event, context) on the
\* caller's own context, which the dispatch changes in place.
DispatchAction ==
  /\ op = NoRequest
  /\ family = "action"
  /\ \E context \in ActionContexts, iter \in IterOrders(family) :
       Returned(HandleEvent("notify", StartRun(context, ZeroResource, TRUE, db, 0), iter),
                Request("HandleEvent", "notify", ZeroResource, TRUE, context, EmptyMap, TRUE, 0))
  /\ UNCHANGED <<family, handlers, schemaHandlers, nreg, envs, uuids, procs, lastCall, filtering, unitVars>>

\* Contexts an event is dispatched with on the schemas whose resource cannot
\* be parsed: each holds a resource, and names its schema or none.
UnparsedContexts ==
  {MapPut(InboundContext, "resource", r) : r \in ActionResources} \cup
  {MapPut(MapPut(InboundContext, "resource", r), "schema_id", s) :
     r \in ActionResources, s \in FamilySchemas("untyped")}

\* The server dispatches pre_create itself, on a context it built:
\* HandleEvent(event, context), any schema of the event coming first.
DispatchEvent ==
  /\ op = NoRequest
  /\ family = "untyped"
  /\ \E context \in UnparsedContexts, prio \in Perms(Priorities),
        schema \in Perms(FamilySchemas("untyped")) :
       Returned(HandleEvent("pre_create", StartRun(context, ZeroResource, TRUE, db, 0),
                            [prio |-> prio, schema |-> schema]),
                Request("HandleEvent", "pre_create", ZeroResource, TRUE, context, EmptyMap, TRUE, 0))
  /\ UNCHANGED <<family, handlers, schemaHandlers, nreg, envs, uuids, procs, lastCall, filtering, unitVars>>

\* CreateRaw(rawResource, context) on the schema of the family.
CreateRaw ==
  /\ op = NoRequest
  /\ family \in {"create", "untyped"}
  /\ \E context \in RequestContexts, resource \in CreateInputs, pointer \in BOOLEAN,
        iter \in IterOrders(family) :
     \E failAt \in FailPoints(context, pointer, 1) :
       Returned(create(RequestSchema(family), StartRun(context, resource, pointer, db, failAt),
                       TRUE, iter),
                Request("CreateRaw", "", resource, pointer, context, EmptyMap, TRUE, failAt))
  /\ UNCHANGED <<family, handlers, schemaHandlers, nreg, envs, uuids, procs, lastCall, filtering, unitVars>>

\* UpdateRaw(rawResource, context) on the schema of the family.
UpdateRaw ==
  /\ op = NoRequest
  /\ family \in {"update", "untyped"}
  /\ \E context \in RequestContexts, resource \in UpdateInputs, pointer \in BOOLEAN,
        iter \in IterOrders(family) :
     \E failAt \in FailPoints(context, pointer, 1) :
       Returned(update(RequestSchema(family), StartRun(context, resource, pointer, db, failAt),
                       TRUE, iter),
                Request("UpdateRaw", "", resource, pointer, context, EmptyMap, TRUE, failAt))
  /\ UNCHANGED <<family, handlers, schemaHandlers, nreg, envs, uuids, procs, lastCall, filtering, unitVars>>

\* DeleteRaw(filter, context) on the schema of the family.
DeleteRaw ==
  /\ op = NoRequest
  /\ family \in {"delete", "untyped"}
  /\ \E context \in RequestContexts, filter \in DeleteFilters, iter \in IterOrders(family) :
     \E failAt \in FailPoints(context, TRUE, DeleteCalls(db, filter)) :
       Returned(delete(RequestSchema(family), StartRun(context, ZeroResource, TRUE, db, failAt),
                       filter, TRUE, iter),
                Request("DeleteRaw", "", ZeroResource, TRUE, context, filter, TRUE,
                        failAt))
  /\ UNCHANGED <<family, handlers, schemaHandlers, nreg, envs, uuids, procs, lastCall, filtering, unitVars>>

\* An iteration order for requests that range over no map.
AnyIter == CHOOSE iter \in IterOrders("create") : TRUE

\* DbCreateRaw(rawResource, context) on schema "network".
DbCreateRaw ==
  /\ op = NoRequest
  /\ family = "create"
  /\ \E context \in RequestContexts, resource \in CreateInputs, pointer \in BOOLEAN :
     \E failAt \in FailPoints(context, pointer, 1) :
       Returned(create("network", StartRun(context, resource, pointer, db, failAt),
                       FALSE, AnyIter),
                Request("DbCreateRaw", "", resource, pointer, context, EmptyMap, FALSE,
                        failAt))
  /\ UNCHANGED <<family, handlers, schemaHandlers, nreg, envs, uuids, procs, lastCall, filtering, unitVars>>

\* DbUpdateRaw(rawResource, context) on schema "network".
DbUpdateRaw ==
  /\ op = NoRequest
  /\ family = "update"
  /\ \E context \in RequestContexts, resource \in UpdateInputs, pointer \in BOOLEAN :
     \E failAt \in FailPoints(context, pointer, 1) :
       Returned(update("network", StartRun(context, resource, pointer, db, failAt),
                       FALSE, AnyIter),
                Request("DbUpdateRaw", "", resource, pointer, context, EmptyMap, FALSE,
                        failAt))
  /\ UNCHANGED <<family, handlers, schemaHandlers, nreg, envs, uuids, procs, lastCall, filtering, unitVars>>

\* DbDeleteRaw(filter, context) on schema "network".
DbDeleteRaw ==
  /\ op = NoRequest
  /\ family = "delete"
  /\ \E context \in RequestContexts, filter \in DeleteFilters :
     \E failAt \in FailPoints(context, TRUE, DeleteCalls(db, filter)) :
       Returned(delete("network", StartRun(context, ZeroResource, TRUE, db, failAt),
                       filter, FALSE, AnyIter),
                Request("DbDeleteRaw", "", ZeroResource, TRUE, context, filter, FALSE,
                        failAt))
  /\ UNCHANGED <<family, handlers, schemaHandlers, nreg, envs, uuids, procs, lastCall, filtering, unitVars>>

\* Filters and IDs a caller reads with.
ReadFilters == DeleteFilters

ReadIDs == {"r1", "r9"}

\* The filters of the fetches: fetchImpl makes goext.Filter{"id": id} of the
\* ID that FetchRaw and LockFetchRaw are called with, FetchFilterRaw is
\* called with a filter; the typed calls pass theirs on.
FetchFilters(name) ==
  IF name \in {"FetchFilterRaw", "FetchFilter"} THEN ReadFilters ELSE {[id |-> id] : id \in ReadIDs}

\* ListRaw(filter, nil, context) and LockListRaw(filter, nil, context, policy)
\* on the schema of the family.
ListRaw ==
  /\ op = NoRequest
  /\ family \in {"read", "untyped"}
  /\ \E context \in RequestContexts, filter \in ReadFilters, lock \in BOOLEAN :
     \E failAt \in FailPoints(context, TRUE, 1) :
       Returned(listImpl(RequestSchema(family), StartRun(context, ZeroResource, TRUE, db, failAt), filter, lock),
                Request(IF lock THEN "LockListRaw" ELSE "ListRaw", "", ZeroResource, TRUE, context, filter, FALSE, failAt))
  /\ UNCHANGED <<family, handlers, schemaHandlers, nreg, envs, uuids, procs, lastCall, filtering, unitVars>>

\* List(filter, nil, context) and LockList(filter, nil, context, policy) on
\* the schema of the family.
List ==
  /\ op = NoRequest
  /\ family \in {"read", "untyped"}
  /\ \E context \in RequestContexts, filter \in ReadFilters, lock \in BOOLEAN :
     \E failAt \in FailPoints(context, TRUE, 1) :
       Returned(list(RequestSchema(family), StartRun(context, ZeroResource, TRUE, db, failAt), filter, lock),
                Request(IF lock THEN "LockList" ELSE "List", "", ZeroResource, TRUE, context, filter, FALSE, failAt))
  /\ UNCHANGED <<family, handlers, schemaHandlers, nreg, envs, uuids, procs, lastCall, filtering, unitVars>>

\* FetchRaw(id, context), LockFetchRaw(id, context, policy) and
\* FetchFilterRaw(filter, context) on the schema of the family.
FetchRaw ==
  /\ op = NoRequest
  /\ family \in {"read", "untyped"}
  /\ \E context \in RequestContexts, name \in {"FetchRaw", "LockFetchRaw", "FetchFilterRaw"} :
     \E filter \in FetchFilters(name), failAt \in FailPoints(context, TRUE, 1) :
       Returned(fetchImplFilter(RequestSchema(family), StartRun(context, ZeroResource, TRUE, db, failAt), filter, name = "LockFetchRaw"),
                Request(name, "", ZeroResource, TRUE, context, filter, FALSE, failAt))
  /\ UNCHANGED <<family, handlers, schemaHandlers, nreg, envs, uuids, procs, lastCall, filtering, unitVars>>

\* Fetch(id, context), LockFetch(id, context, policy) and
\* FetchFilter(filter, context) on the schema of the family.
Fetch ==
  /\ op = NoRequest
  /\ family \in {"read", "untyped"}
  /\ \E context \in RequestContexts, name \in {"Fetch", "LockFetch", "FetchFilter"} :
     \E filter \in FetchFilters(name), failAt \in FailPoints(context, TRUE, 1) :
       Returned(fetch(RequestSchema(family), fetchImplFilter(RequestSchema(family), StartRun(context, ZeroResource, TRUE, db, failAt), filter, name = "LockFetch")),
                Request(name, "", ZeroResource, TRUE, context, filter, FALSE, failAt))
  /\ UNCHANGED <<family, handlers, schemaHandlers, nreg, envs, uuids, procs, lastCall, filtering, unitVars>>

\* StateFetchRaw(id, context) on schema "network".
StateFetchRaw ==
  /\ op = NoRequest
  /\ family = "read"
  /\ \E context \in RequestContexts, id \in ReadIDs :
     \E failAt \in FailPoints(context, TRUE, 1) :
       Returned(stateFetchRaw("network", StartRun(context, ZeroResource, TRUE, db, failAt), id),
                Request("StateFetchRaw", "", ZeroResource, TRUE, context, [id |-> id], FALSE,
                        failAt))
  /\ UNCHANGED <<family, handlers, schemaHandlers, nreg, envs, uuids, procs, lastCall, filtering, unitVars>>

\* Count(filter, context) on schema "network".
Count ==
  /\ op = NoRequest
  /\ family = "read"
  /\ \E context \in RequestContexts, filter \in ReadFilters :
     \E failAt \in FailPoints(context, TRUE, 1) :
       Returned(count("network", StartRun(context, ZeroResource, TRUE, db, failAt), filter),
                Request("Count", "", ZeroResource, TRUE, context, filter, FALSE, failAt))
  /\ UNCHANGED <<family, handlers, schemaHandlers, nreg, envs, uuids, procs, lastCall, filtering, unitVars>>

\* DbStateUpdateRaw(rawResource, context, state) on schema "network".
DbStateUpdateRaw ==
  /\ op = NoRequest
  /\ family = "read"
  /\ \E context \in RequestContexts, resource \in UpdateInputs :
     \E failAt \in FailPoints(context, TRUE, 1) :
       Returned(dbStateUpdateRaw("network", StartRun(context, resource, TRUE, db, failAt)),
                Request("DbStateUpdateRaw", "", resource, TRUE, context, EmptyMap, FALSE, failAt))
  /\ UNCHANGED <<family, handlers, schemaHandlers, nreg, envs, uuids, procs, lastCall, filtering, unitVars>>

\* Contexts two concurrent requests dispatch the custom action with.
ConcurrentContexts ==
  {MapPut(MapPut(InboundContext, "resource", r), "schema_id", "network") : r \in ActionResources}

\* A request about to call HandleEvent(event, context): its run state, its
\* place in HandleEvent, and the context and registries it began with.
Proc(context) ==
  [st |-> StartRun(context, ZeroResource, TRUE, InitialDb, 0), pc |-> "enter",
   ctx |-> context, loaded |-> Environment(handlers, schemaHandlers)]

\* `if err != nil { return err }` between the two halves of HandleEvent.
schemaHandlersDone(proc, st) ==
  [proc EXCEPT !.st = st, !.pc = IF st.err # NoErr THEN "done" ELSE "generic"]

\* The next part of HandleEvent for one request, on the environment env:
\* the entry, the schema handlers, the generic handlers.
handleEventStep(proc, env) ==
  CASE proc.pc = "enter" ->
         [proc EXCEPT !.st = enterEvent("notify", [proc.st EXCEPT !.env = env]),
                      !.pc = "schema"]
    [] proc.pc = "schema" ->
         schemaHandlersDone(proc, dispatchToSchemaHandlers("notify",
                                     [proc.st EXCEPT !.env = env], AnyIter))
    [] OTHER ->
         [proc EXCEPT !.st = dispatchToGenericHandlers("notify",
                                [proc.st EXCEPT !.env = env], AnyIter),
                      !.pc = "done"]

\* A dispatcher that keeps the failure of a handler where every request
\* dispatching through the environment finds it.
dispatchStepSharedError(ps, i, env) ==
  [j \in DOMAIN ps |->
     IF j = i THEN handleEventStep(ps[i], env)
     ELSE IF handleEventStep(ps[i], env).st.err # NoErr /\ ps[j].pc # "done"
          THEN [ps[j] EXCEPT !.st.err = handleEventStep(ps[i], env).st.err, !.pc = "done"]
          ELSE ps[j]]

\* The requests after request i took its next part of HandleEvent.
dispatchStep(ps, i, env) == [ps EXCEPT ![i] = handleEventStep(ps[i], env)]

\* Two requests begin to dispatch the same custom action, each on its own
\* context, through the one environment.
ConcurrentBegin ==
  /\ op = NoRequest
  /\ family = "concurrent"
  /\ \E c1 \in ConcurrentContexts, c2 \in ConcurrentContexts :
       /\ procs' = <<Proc(c1), Proc(c2)>>
       /\ op' = Request("Concurrent", "notify", ZeroResource, TRUE, c1, EmptyMap, TRUE, 0)
  /\ UNCHANGED <<family, handlers, schemaHandlers, nreg, db, requestContext, rawResource,
                 contextCopy, trace, err, result, envs, uuids, lastCall, filtering, unitVars, panicked>>

\* One of the requests takes its next part of HandleEvent, reading the
\* registries of the environment as they are now.
ConcurrentStep ==
  /\ \E i \in DOMAIN procs :
       /\ procs[i].pc # "done"
       /\ procs' = dispatchStep(procs, i, Environment(handlers, schemaHandlers))
       /\ handlers' = procs'[i].st.env.handlers
       /\ schemaHandlers' = procs'[i].st.env.schemaHandlers
  /\ UNCHANGED <<family, nreg, db, requestContext, rawResource, op, contextCopy, trace, err,
                 result, envs, uuids, lastCall, filtering, unitVars, panicked>>

\* What a lifecycle step leaves alone.
requestVars ==
  <<family, handlers, schemaHandlers, nreg, db, requestContext, rawResource, op, contextCopy,
    trace, err, result, procs, panicked>>

\* envs after Start() on environment i.
startEnvironment(es, i, uuid) == [es EXCEPT ![i] = Start(es[i], i, uuid)]

\* envs after Stop() on environment i.
stopEnvironment(es, i) == [es EXCEPT ![i] = Stop(es[i])]

\* The trace IDs generated once Start() on env returned.
generated(env, n) == IF env.initFns = {} THEN n ELSE n + 1

\* NewEnvironment makes the initFns map and Clone() copies the reference to
\* it, so that every environment holds the one map.
RECURSIVE shareInitFns(_, _)
shareInitFns(es, initFns) ==
  IF es = <<>> THEN <<>>
  ELSE <<[Head(es) EXCEPT !.initFns = initFns]>> \o shareInitFns(Tail(es), initFns)

\* envs after Load(binary) on environment i.
loadEnvironment(es, i, binary) == shareInitFns(es, Load(es[i], binary).env.initFns)

\* What LoadExtensionsForPath leaves: the environments, the trace IDs
\* generated and the error returned.
LoadedExtensions(es, n, e) == [envs |-> es, uuids |-> n, err |-> e]

\* Environment.LoadExtensionsForPath on environment i, urls being the URLs of
\* the goext extensions that match the path, in the order of the list.
RECURSIVE loadExtensionsForPath(_, _, _, _)
loadExtensionsForPath(es, n, i, urls) ==
  IF urls = <<>> THEN LoadedExtensions(es, n, NoErr)
  ELSE IF Load(es[i], Head(urls)).err # NoErr
    THEN LoadedExtensions(es, n, Load(es[i], Head(urls)).err)
  ELSE IF Load(es[i], Head(urls)).ok
    THEN loadExtensionsForPath(startEnvironment(loadEnvironment(es, i, Head(urls)), i, n + 1), n + 1, i, Tail(urls))
  ELSE loadExtensionsForPath(es, n, i, Tail(urls))

\* The extension lists LoadExtensionsForPath is called with.
ExtensionLists == {<<binary>> : binary \in Binaries} \cup {<<"acl.so", binary>> : binary \in Binaries}

\* Load(binary) on one environment. The extensions are loaded before the
\* environment is cloned for the requests.
LoadEnvironment ==
  /\ family = "lifecycle"
  /\ Len(envs) = 1
  /\ \E i \in DOMAIN envs, binary \in Binaries :
       /\ ~envs[i].resetting
       /\ envs' = loadEnvironment(envs, i, binary)
       /\ lastCall' = Call("Load", i, <<binary>>, Load(envs[i], binary).ok, Load(envs[i], binary).err)
  /\ UNCHANGED <<uuids, requestVars, filtering, unitVars>>

\* LoadExtensionsForPath on one environment.
LoadExtensions ==
  /\ family = "lifecycle"
  /\ Len(envs) = 1
  /\ \E i \in DOMAIN envs, urls \in ExtensionLists :
       /\ ~envs[i].resetting
       /\ uuids + Len(urls) <= MaxUUID
       /\ envs' = loadExtensionsForPath(envs, uuids, i, urls).envs
       /\ uuids' = loadExtensionsForPath(envs, uuids, i, urls).uuids
       /\ lastCall' = Call("LoadExtensionsForPath", i, urls, FALSE, loadExtensionsForPath(envs, uuids, i, urls).err)
  /\ UNCHANGED <<requestVars, filtering, unitVars>>

\* Start() on one environment.
StartEnvironment ==
  /\ family = "lifecycle"
  /\ uuids < MaxUUID
  /\ \E i \in DOMAIN envs :
       /\ ~envs[i].resetting
       /\ envs' = startEnvironment(envs, i, uuids + 1)
       /\ uuids' = generated(envs[i], uuids)
       /\ lastCall' = Call("Start", i, <<>>, FALSE, NoErr)
  /\ UNCHANGED <<requestVars, filtering, unitVars>>

\* Stop() on one environment.
StopEnvironment ==
  /\ family = "lifecycle"
  /\ \E i \in DOMAIN envs :
       /\ ~envs[i].resetting
       /\ envs' = stopEnvironment(envs, i)
       /\ lastCall' = Call("Stop", i, <<>>, FALSE, NoErr)
  /\ UNCHANGED <<uuids, requestVars, filtering, unitVars>>

\* Reset() on one environment, up to the return of its Stop().
ResetStop ==
  /\ family = "lifecycle"
  /\ \E i \in DOMAIN envs :
       /\ ~envs[i].resetting
       /\ envs' = [stopEnvironment(envs, i) EXCEPT ![i].resetting = TRUE]
       /\ lastCall' = Call("Stop", i, <<>>, FALSE, NoErr)
  /\ UNCHANGED <<uuids, requestVars, filtering, unitVars>>

\* Reset() on one environment, from its Start() on.
ResetStart ==
  /\ family = "lifecycle"
  /\ uuids < MaxUUID
  /\ \E i \in DOMAIN envs :
       /\ envs[i].resetting
       /\ envs' = [startEnvironment(envs, i, uuids + 1) EXCEPT ![i].resetting = FALSE]
       /\ uuids' = generated(envs[i], uuids)
       /\ lastCall' = Call("Reset", i, <<>>, FALSE, NoErr)
  /\ UNCHANGED <<requestVars, filtering, unitVars>>

\* Clone() of one environment, for the use of another request.
CloneEnvironment ==
  /\ family = "lifecycle"
  /\ uuids < MaxUUID
  /\ Len(envs) < MaxEnvs
  /\ \E i \in DOMAIN envs :
       /\ envs' = Append(envs, EnvironmentClone(envs[i], Len(envs) + 1, uuids + 1))
       /\ lastCall' = Call("Clone", i, <<>>, FALSE, NoErr)
  /\ uuids' = uuids + 1
  /\ UNCHANGED <<requestVars, filtering, unitVars>>

\* The filters are made first and asked afterwards: no call on the factory
\* or on a filter has been made but makes of filters.
MakingFilters ==
  filtering.call.name \in {"none", "CreateFilterFromProperties", "CreateExcludeAllFilter"}

\* What the filter calls leave alone.
filterVars == <<requestVars, envs, uuids, lastCall, unitVars>>

\* filterFactory.CreateFilterFromProperties(visible, hidden): on an error the
\* caller holds no filter.
CreateFilter ==
  /\ family = "filter"
  /\ MakingFilters
  /\ \E visible \in PropertyLists, hidden \in PropertyLists :
       filtering' =
         [factory |-> CreateFilterFromProperties(filtering.factory, visible, hidden).factory,
          filter |-> CreateFilterFromProperties(filtering.factory, visible, hidden).filter,
          call |-> FilterCall("CreateFilterFromProperties", visible, hidden, <<>>, NilSlice, "",
                              CreateFilterFromProperties(filtering.factory, visible, hidden).err,
                              <<>>, NilSlice, FALSE)]
  /\ UNCHANGED filterVars

\* filter = CreateExcludeAllFilter()
CreateExcludeAll ==
  /\ family = "filter"
  /\ MakingFilters
  /\ filtering' = [filtering EXCEPT !.filter = CreateExcludeAllFilter,
                     !.call = FilterCall("CreateExcludeAllFilter", NilSlice, NilSlice, <<>>,
                                         NilSlice, "", NoErr, <<>>, NilSlice, FALSE)]
  /\ UNCHANGED filterVars

\* filter.RemoveHiddenKeysFromMap(data)
RemoveFromMap ==
  /\ family = "filter"
  /\ MakingFilters
  /\ filtering.filter # NilFilter
  /\ \E data \in DataMaps :
       filtering' = [filtering EXCEPT !.call =
         FilterCall("RemoveHiddenKeysFromMap", NilSlice, NilSlice, data, NilSlice, "", NoErr,
                    RemoveHiddenKeysFromMap(filtering.filter, data), NilSlice, FALSE)]
  /\ UNCHANGED filterVars

\* filter.RemoveHiddenKeysFromSlice(data)
RemoveFromSlice ==
  /\ family = "filter"
  /\ MakingFilters
  /\ filtering.filter # NilFilter
  /\ \E keys \in KeyLists :
       filtering' = [filtering EXCEPT !.call =
         FilterCall("RemoveHiddenKeysFromSlice", NilSlice, NilSlice, <<>>, keys, "", NoErr, <<>>,
                    RemoveHiddenKeysFromSlice(filtering.filter, keys), FALSE)]
  /\ UNCHANGED filterVars

\* filter.IsForbidden(key)
IsForbiddenKey ==
  /\ family = "filter"
  /\ MakingFilters
  /\ filtering.filter # NilFilter
  /\ \E key \in DataKeys :
       filtering' = [filtering EXCEPT !.call =
         FilterCall("IsForbidden", NilSlice, NilSlice, <<>>, NilSlice, key, NoErr, <<>>,
                    NilSlice, IsForbidden(filtering.filter, key))]
  /\ UNCHANGED filterVars

\* filter.AllowsAll()
AllowsAllKeys ==
  /\ family = "filter"
  /\ MakingFilters
  /\ filtering.filter # NilFilter
  /\ filtering' = [filtering EXCEPT !.call =
       FilterCall("AllowsAll", NilSlice, NilSlice, <<>>, NilSlice, "", NoErr, <<>>, NilSlice,
                  AllowsAll(filtering.filter))]
  /\ UNCHANGED filterVars

\* What a call of the marshaler leaves alone.
\* What the steps of the goroutines on the factory leave alone besides the
\* factory.
callerVars == <<requestVars, envs, uuids, lastCall, marshaling, authorizing, beginning>>

\* A goroutine calls filterFactory.CreateFilterFromProperties(visible, hidden).
CallCreateFilter ==
  /\ family = "factory"
  /\ \E c \in Callers, visible \in CallerLists, hidden \in CallerLists :
       /\ callers[c].pc = "idle"
       /\ callers' = [callers EXCEPT ![c] = Caller("assign visible", visible, hidden, NilSlice, "",
                                                   NilFilter, NoErr)]
  /\ UNCHANGED <<callerVars, filtering>>

\* f.visible = visible
AssignVisible ==
  /\ family = "factory"
  /\ \E c \in Callers :
       /\ callers[c].pc = "assign visible"
       /\ filtering' = [filtering EXCEPT !.factory.visible = callers[c].visible]
       /\ callers' = [callers EXCEPT ![c].pc = "assign hidden"]
  /\ UNCHANGED callerVars

\* f.hidden = hidden
AssignHidden ==
  /\ family = "factory"
  /\ \E c \in Callers :
       /\ callers[c].pc = "assign hidden"
       /\ filtering' = [filtering EXCEPT !.factory.hidden = callers[c].hidden]
       /\ callers' = [callers EXCEPT ![c].pc = "read visible"]
  /\ UNCHANGED callerVars

\* getFilterType: if f.visible == nil
ReadVisible ==
  /\ family = "factory"
  /\ \E c \in Callers :
       /\ callers[c].pc = "read visible"
       /\ callers' = [callers EXCEPT ![c].pc = "read hidden", ![c].seen = filtering.factory.visible]
  /\ UNCHANGED <<callerVars, filtering>>

\* getFilterType: if f.hidden == nil, and its return
ReadHidden ==
  /\ family = "factory"
  /\ \E c \in Callers :
       /\ callers[c].pc = "read hidden"
       /\ callers' = [callers EXCEPT
            ![c].pc = "create strategy",
            ![c].type = getFilterType([visible |-> callers[c].seen,
                                       hidden |-> filtering.factory.hidden])]
  /\ UNCHANGED <<callerVars, filtering>>

\* The switch of createFilterStrategy, and the return of
\* CreateFilterFromProperties.
CreateStrategy ==
  /\ family = "factory"
  /\ \E c \in Callers :
       /\ callers[c].pc = "create strategy"
       /\ callers' = [callers EXCEPT
            ![c].pc = "returned",
            ![c].filter = strategyOfType(callers[c].type, filtering.factory).strategy,
            ![c].err = strategyOfType(callers[c].type, filtering.factory).err]
  /\ UNCHANGED <<callerVars, filtering>>

\* What a call on the database binding leaves alone.
beginVars == <<requestVars, envs, uuids, lastCall, filtering, marshaling, authorizing, callers>>

\* env.Database().Begin()
Begin ==
  /\ family = "database"
  /\ \E definition \in Definitions, raw \in RawBegins :
       beginning' = BeginCall("Begin", definition, "set", raw, FALSE,
                              DatabaseBegin(definition, raw))
  /\ UNCHANGED beginVars

\* env.Database().BeginTx(ctx, options)
BeginTx ==
  /\ family = "database"
  /\ \E definition \in Definitions, raw \in RawBegins, options \in {"nil", "set"} :
       beginning' =
         IF options = "nil"
         THEN BeginCall("BeginTx", definition, options, raw, TRUE, NoBeginCall.out)
         ELSE BeginCall("BeginTx", definition, options, raw, FALSE,
                        DatabaseBegin(definition, raw))
  /\ UNCHANGED beginVars

marshalVars == <<requestVars, envs, uuids, lastCall, filtering, authorizing, callers, beginning>>

\* resourceToMap(resourceFromContext(data)): an attribute map made a
\* resource of the registered raw type, and the resource made a map again.
FromContextToMap ==
  /\ family = "marshal"
  /\ marshaling.name = "none"
  /\ \E data \in AttributeMaps :
       marshaling' =
         MarshalCall("resourceFromContext", data, Nil,
                     typedResourceFromContext(RawNetwork, data).resource,
                     typedResourceFromContext(RawNetwork, data).ok, FALSE,
                     structToMap(RawNetwork, typedResourceFromContext(RawNetwork, data).resource),
                     Nil)
  /\ UNCHANGED marshalVars

\* The resources updateResourceFromContextR is applied to: a new one, and
\* one whose wrappers hold values.
UpdatedResources ==
  {newResource(RawNetwork),
   [ID |-> StringValue("a"), MTU |-> IntValue(7), Name |-> NullStringValue("n", TRUE),
    Vlan |-> NullIntValue(5, TRUE)]}

\* updateResourceFromContextR(resource, data), and the resource made a map
\* again; a panic of reflect ends the call.
FromUpdateToMap ==
  /\ family = "marshal"
  /\ marshaling.name = "none"
  /\ \E data \in AttributeMaps, resource \in UpdatedResources :
       marshaling' =
         MarshalCall("updateResourceFromContextR", data, Nil,
                     updateResourceFromContextR(RawNetwork, resource, data).resource, TRUE,
                     updateResourceFromContextR(RawNetwork, resource, data).panics,
                     structToMap(RawNetwork,
                                 updateResourceFromContextR(RawNetwork, resource, data).resource),
                     Nil)
  /\ UNCHANGED marshalVars

\* The nullable wrappers resourceToMap is given pointers to.
Wrappers ==
  {NullStringValue("n", TRUE), NullStringValue("n", FALSE), NullStringValue("", FALSE),
   NullIntValue(5, TRUE), NullIntValue(0, FALSE)}

\* resourceToMap(&wrapper)
WrapperToMap ==
  /\ family = "marshal"
  /\ marshaling.name = "none"
  /\ \E wrapper \in Wrappers :
       marshaling' = MarshalCall("resourceToMap", <<>>, wrapper, newResource(RawNetwork), TRUE,
                                 FALSE, <<>>, wrapperToMap(wrapper))
  /\ UNCHANGED marshalVars

\* env.Auth().IsAdminContext(context)
IsAdmin ==
  /\ family = "auth"
  /\ \E context \in AuthContexts :
       authorizing' = AuthCall("IsAdminContext", context, IsAdminContext(context).admin,
                               IsAdminContext(context).warning)
  /\ UNCHANGED <<requestVars, envs, uuids, lastCall, filtering, marshaling, callers, beginning>>

Next ==
  \/ RegisterEventHandler
  \/ IsAdmin
  \/ FromContextToMap
  \/ FromUpdateToMap
  \/ WrapperToMap
  \/ CallCreateFilter
  \/ AssignVisible
  \/ AssignHidden
  \/ ReadVisible
  \/ ReadHidden
  \/ CreateStrategy
  \/ Begin
  \/ BeginTx
  \/ CreateFilter
  \/ CreateExcludeAll
  \/ RemoveFromMap
  \/ RemoveFromSlice
  \/ IsForbiddenKey
  \/ AllowsAllKeys
  \/ LoadEnvironment
  \/ LoadExtensions
  \/ RegisterResourceEventHandler
  \/ RegisterSchemaEventHandler
  \/ DispatchAction
  \/ DispatchEvent
  \/ CreateRaw
  \/ UpdateRaw
  \/ DeleteRaw
  \/ DbCreateRaw
  \/ DbUpdateRaw
  \/ DbDeleteRaw
  \/ ListRaw
  \/ List
  \/ Fetch
  \/ FetchRaw
  \/ StateFetchRaw
  \/ Count
  \/ DbStateUpdateRaw
  \/ StartEnvironment
  \/ StopEnvironment
  \/ ResetStop
  \/ ResetStart
  \/ CloneEnvironment
  \/ ConcurrentBegin
  \/ ConcurrentStep

Spec == Init /\ [][Next]_vars

\* ------------------------------------------------------------------------
\* Properties of the event dispatcher
\* ------------------------------------------------------------------------

Entries(type) == {i \in 1..Len(trace) : trace[i].type = type}

HandlerIdx == Entries("handler")

\* The registrations of one priority map, as <<priority, position, handler>>.
Registrations(byPriority) ==
  UNION {{<<p, i, byPriority[p][i]>> : i \in 1..Len(byPriority[p])} : p \in DOMAIN byPriority}

\* The invocations one HandleEvent call made in one scope, for one schema.
Invocations(call, scope, schemaID) ==
  {i \in HandlerIdx : trace[i].call = call /\ trace[i].scope = scope
                       /\ trace[i].schema = schemaID}

Invoked(I) == {<<trace[i].priority, trace[i].index, trace[i].h>> : i \in I}

InPriorityOrder(I) ==
  \A i, j \in I :
    i < j => \/ trace[i].priority < trace[j].priority
             \/ trace[i].priority = trace[j].priority /\ trace[i].index < trace[j].index

\* HandleEvent call e dispatches to the handlers of schema schemaID.
Dispatched(e, schemaID) ==
  /\ Has(schemaHandlers, e.event)
  /\ Has(schemaHandlers[e.event], schemaID)
  /\ Find(schemaID)
  /\ e.scope = "broadcast" \/ e.schema = schemaID

\* C1: when no handler fails, the handlers of one event (and of one schema
\* of the event) are invoked in ascending numeric priority, within one
\* priority in registration order, each registration exactly once, whatever
\* order the maps are ranged in; schemas not dispatched to see no invocation.
C1_HandlersInPriorityOrder ==
  err = NoErr =>
    \A m \in Entries("event") :
      /\ InPriorityOrder(Invocations(trace[m].call, "generic", ""))
      /\ Invoked(Invocations(trace[m].call, "generic", ""))
           = Registrations(MapGet(handlers, trace[m].event, EmptyMap))
      /\ \A s \in Schemas \cup {UnknownSchema} :
           IF Dispatched(trace[m], s)
           THEN /\ InPriorityOrder(Invocations(trace[m].call, "schema", s))
                /\ Invoked(Invocations(trace[m].call, "schema", s))
                     = Registrations(schemaHandlers[trace[m].event][s])
           ELSE Invocations(trace[m].call, "schema", s) = {}

\* Two handlers of one schema at different priorities, both invoked.
C1_Witness ==
  /\ err = NoErr
  /\ \E i, j \in HandlerIdx :
       /\ i < j
       /\ trace[i].call = trace[j].call
       /\ trace[i].scope = "schema" /\ trace[j].scope = "schema"
       /\ trace[i].schema = trace[j].schema
       /\ trace[i].priority < trace[j].priority

\* C2: a handler that returns an error ends the dispatch: the call returns
\* an error and invokes no handler after it, neither of the same priority,
\* nor of a later priority, nor a generic handler of the event.
C2_FailFast ==
  \A i \in HandlerIdx :
    trace[i].failed =>
      /\ err # NoErr
      /\ \A j \in HandlerIdx : j > i => trace[j].call # trace[i].call

\* A schema handler failed while a generic handler of the same event was
\* registered.
C2_Witness ==
  \E i \in HandlerIdx :
    /\ trace[i].failed
    /\ trace[i].scope = "schema"
    /\ Has(handlers, trace[i].event)

\* ------------------------------------------------------------------------
\* Properties of the CRUD orchestrator
\* ------------------------------------------------------------------------

Writes == {"Create", "Update", "Delete"}

\* The storage writes made for one resource id.
StorageWrites(rid) ==
  {i \in Entries("storage") : trace[i].event \in Writes /\ trace[i].rid = rid}

\* C3: when a pre_create, pre_update or pre_delete handler fails, the storage
\* write of that resource is never called, no post handler runs for it, the
\* request returns an error and the stored row is as it was.
C3_PreFailureSkipsStorage ==
  \A i \in HandlerIdx :
    (trace[i].failed /\ trace[i].event \in PreEvents) =>
      /\ err # NoErr
      /\ StorageWrites(trace[i].rid) = {}
      /\ \A j \in Entries("event") \cup HandlerIdx :
           ~(trace[j].event \in PostEvents /\ trace[j].rid = trace[i].rid)
      /\ MapGet(db, trace[i].rid, EmptyMap) = MapGet(InitialDb, trace[i].rid, EmptyMap)

\* An update whose pre_update handler rejected the resource.
C3_Witness ==
  /\ op.name = "UpdateRaw"
  /\ op.resource["Status"] = DIP
  /\ \E i \in HandlerIdx :
       /\ trace[i].failed
       /\ trace[i].event = "pre_update" /\ trace[i].priority = 10
       /\ trace[i].rid = "r1"

\* C4: post_create and post_update are dispatched only after a successful
\* storage write of the resource and the write-back into the caller's
\* resource; a storage write that fails ends the request with that error,
\* nothing runs after it and the caller's resource is left as passed in.
C4_PostOnlyAfterStorage ==
  /\ \A j \in Entries("event") \cup HandlerIdx :
       trace[j].event \in {"post_create", "post_update"} =>
         \E i \in StorageWrites(trace[j].rid), k \in Entries("writeback") :
           /\ i < k /\ k < j
           /\ ~trace[i].failed
           /\ trace[k].rid = trace[j].rid
  /\ \A i \in Entries("storage") :
       (trace[i].failed /\ trace[i].event \in {"Create", "Update"}) =>
         /\ err = StorageErr(trace[i].event)
         /\ i = Len(trace)
         /\ rawResource = op.resource

\* A post_update handler ran on a resource that the write-back had changed.
C4_Witness ==
  /\ op.name = "UpdateRaw"
  /\ rawResource # op.resource
  /\ \E j \in HandlerIdx : trace[j].event = "post_update"

\* C5: when a post handler fails the request returns that handler's failure,
\* the storage write of the resource has run exactly once and stays in the
\* storage, and after a create or update the caller's resource holds the
\* written-back values.
C5_PostFailureKeepsWrite ==
  \A j \in HandlerIdx :
    (trace[j].failed /\ trace[j].event \in PostEvents) =>
      /\ err # NoErr
      /\ err.tag \in {"handler", "dispatch"}
      /\ err.cause = trace[j].h
      /\ \E i \in StorageWrites(trace[j].rid) :
           /\ StorageWrites(trace[j].rid) = {i}
           /\ i < j
           /\ ~trace[i].failed
           /\ MapGet(db, trace[j].rid, EmptyMap) = trace[i].after
           /\ trace[i].event \in {"Create", "Update"} =>
                rawResource = resourceFromMap(trace[i].seen, op.resource)

\* A create whose post_create handler failed: the row is in the storage.
C5_Witness ==
  /\ op.name = "CreateRaw"
  /\ Has(db, "r3")
  /\ \E j \in HandlerIdx : trace[j].failed /\ trace[j].event = "post_create"

\* C6: within one HandleEvent call every schema handler runs before any
\* generic handler; generic handlers are called with the context only; and
\* with no schema handler registered for the event the generic handlers
\* still run.
C6_SchemaBeforeGeneric ==
  /\ \A i, j \in HandlerIdx :
       (i < j /\ trace[i].call = trace[j].call) =>
         ~(trace[i].scope = "generic" /\ trace[j].scope = "schema")
  /\ \A i \in HandlerIdx :
       trace[i].scope = "generic" =>
         trace[i].schema = "" /\ trace[i].res = NoResource /\ trace[i].resAfter = NoResource
  /\ \A m \in Entries("event") :
       (~Has(schemaHandlers, trace[m].event) /\ Has(handlers, trace[m].event)) =>
         /\ Invocations(trace[m].call, "generic", "") # {}
         /\ err = NoErr => Invoked(Invocations(trace[m].call, "generic", ""))
                              = Registrations(handlers[trace[m].event])

\* A schema handler and then a generic handler ran in one call.
C6_Witness ==
  \E i, j \in HandlerIdx :
    /\ i < j
    /\ trace[i].call = trace[j].call
    /\ trace[i].scope = "schema"
    /\ trace[j].scope = "generic"

\* The handler invocation that follows invocation i in the same call.
NextHandler(i) ==
  {j \in HandlerIdx : /\ j > i
                       /\ trace[j].call = trace[i].call
                       /\ \A k \in HandlerIdx : ~(i < k /\ k < j)}

\* C7: after a schema handler returns without error, context["resource"] is
\* the map form of the typed resource as the handler left it; the next
\* handler of the call (of the same schema, of another schema, or generic)
\* is entered with it, and so is the caller of HandleEvent left.
C7_ContextResourceIsRemarshaled ==
  \A i \in HandlerIdx :
    (trace[i].scope = "schema" /\ ~trace[i].failed) =>
      /\ trace[i].after = resourceToMap(trace[i].resAfter)
      /\ \A j \in NextHandler(i) :
           /\ trace[j].seen = trace[i].after
           /\ (trace[j].scope = "schema" /\ trace[j].schema = trace[i].schema) =>
                trace[j].res = trace[i].resAfter
      /\ (op.name = "HandleEvent" /\ i = Len(trace)) =>
           CtxResource(requestContext) = trace[i].after

\* A schema handler changed the status and a generic handler then saw it.
C7_Witness ==
  \E i, j \in HandlerIdx :
    /\ j \in NextHandler(i)
    /\ trace[i].scope = "schema" /\ trace[i].h = "mark"
    /\ trace[i].res["Status"] # DIP
    /\ trace[j].scope = "generic"
    /\ Has(trace[j].seen, "status") /\ trace[j].seen["status"] = DIP

\* The handler invocations made before trace position i.
HandlersBefore(i) == {j \in HandlerIdx : j < i}

LastOf(I) == CHOOSE j \in I : \A k \in I : k <= j

\* C8: the attribute map handed to the storage Create / Update is the
\* context's resource as the pre dispatch left it (the caller's resource in
\* map form when no handler ran), so a status a pre handler set is the
\* status that is stored.
C8_StorageGetsContextResource ==
  \A i \in Entries("storage") :
    trace[i].event \in {"Create", "Update"} =>
      /\ trace[i].seen = IF HandlersBefore(i) = {} THEN resourceToMap(op.resource)
                         ELSE trace[LastOf(HandlersBefore(i))].after
      /\ \A j \in HandlersBefore(i) :
           (trace[j].h = "mark" /\ ~trace[i].failed) =>
             /\ trace[i].seen["status"] = DIP
             /\ Has(db, trace[i].rid) /\ db[trace[i].rid]["status"] = DIP

\* A create passed in without status, stored with the status a pre_create
\* handler set.
C8_Witness ==
  /\ op.name = "CreateRaw"
  /\ op.resource["Status"] = ""
  /\ Has(db, "r3") /\ db["r3"]["status"] = DIP

ContextKeys == {"resource", "resource_id", "schema_id", "event_type"}

\* C10: CreateRaw, UpdateRaw and DeleteRaw leave the caller's request
\* context as it was passed in, whether they succeed or fail: the keys the
\* orchestrator and the dispatcher set, and what handlers write, are on the
\* cloned context only.
C10_RequestContextUnchanged ==
  op.name \in {"CreateRaw", "UpdateRaw", "DeleteRaw"} =>
    /\ requestContext = op.ctx
    /\ \A k \in ContextKeys : ~Has(requestContext, k)
    /\ \A i \in HandlerIdx :
         (trace[i].h = "mark" /\ ~trace[i].failed) =>
           contextCopy["note"] = "marked" /\ requestContext["note"] = "inbound"

\* A create whose handlers wrote into the context they were given.
C10_Witness ==
  /\ op.name = "CreateRaw"
  /\ Has(contextCopy, "note")
  /\ contextCopy["note"] = "marked"
  /\ \A k \in ContextKeys : Has(contextCopy, k)

\* ------------------------------------------------------------------------
\* Properties of multi-row delete
\* ------------------------------------------------------------------------

\* The dispatches and storage deletes of the request, in order.
DeleteSteps ==
  SelectSeq(trace, LAMBDA e : e.type = "event" \/ (e.type = "storage" /\ e.event = "Delete"))

\* The rows the filter of the request matched when it was made.
MatchedRows == listedRows(InitialDb, op.filter)

IsStep(e, type, event, rid) == e.type = type /\ e.event = event /\ e.rid = rid

\* C11: a delete matching N rows in which nothing fails makes, row by row
\* in listing order, one pre_delete dispatch, one storage delete and one
\* post_delete dispatch: 3N steps, row i's three before row i+1's, and
\* every handler runs inside the dispatch of its own row.
C11_DeletePerRowSequences ==
  (op.name = "DeleteRaw" /\ err = NoErr /\ panicked = "") =>
    /\ Len(DeleteSteps) = 3 * Len(MatchedRows)
    /\ \A i \in 1..Len(MatchedRows) :
         /\ IsStep(DeleteSteps[3 * i - 2], "event", "pre_delete", MatchedRows[i]["id"])
         /\ IsStep(DeleteSteps[3 * i - 1], "storage", "Delete", MatchedRows[i]["id"])
         /\ IsStep(DeleteSteps[3 * i], "event", "post_delete", MatchedRows[i]["id"])
         /\ ~DeleteSteps[3 * i - 1].failed
    /\ \A j \in HandlerIdx :
         \E m \in Entries("event") :
           /\ m < j
           /\ trace[m].call = trace[j].call
           /\ trace[m].rid = trace[j].rid
           /\ \A k \in Entries("event") \cup Entries("storage") : ~(m < k /\ k < j)

\* A delete of two rows with a handler run before and after each storage
\* delete.
C11_Witness ==
  /\ op.name = "DeleteRaw"
  /\ err = NoErr
  /\ Len(MatchedRows) = 2
  /\ \A r \in {"r1", "r2"} :
       \E i, j \in HandlerIdx :
         /\ trace[i].rid = r /\ trace[i].event = "pre_delete"
         /\ trace[j].rid = r /\ trace[j].event = "post_delete"

\* The dispatches and handler invocations of a delete.
DeleteDispatches == {m \in Entries("event") \cup HandlerIdx : op.name = "DeleteRaw"}

\* C12: every dispatch of a multi-row delete runs on the snapshot of its own
\* row: the context's resource_id and resource are that row's, and what a
\* handler wrote into the context during an earlier row is not in the
\* context a later row's pre_delete is dispatched with.
C12_DeleteRowOwnSnapshot ==
  \A m \in DeleteDispatches :
    /\ CtxResourceID(trace[m].ctx) = trace[m].rid
    /\ trace[m].type = "event" =>
         /\ Has(InitialDb, trace[m].rid)
         /\ trace[m].event = "pre_delete" =>
              /\ CtxResource(trace[m].ctx) = InitialDb[trace[m].rid]
              /\ trace[m].ctx["note"] = op.ctx["note"]

\* ------------------------------------------------------------------------
\* Properties of the Db-prefixed variants
\* ------------------------------------------------------------------------

DbNames == {"DbCreateRaw", "DbUpdateRaw", "DbDeleteRaw"}

\* The run state of the request made, on an environment with no handler.
EmptyRegistryRun ==
  [StartRun(op.ctx, op.resource, op.pointer, InitialDb, op.failAt)
     EXCEPT !.env = Environment(EmptyMap, EmptyMap)]

\* CreateRaw / UpdateRaw / DeleteRaw with the arguments of the request made,
\* run on an environment with an empty handler registry.
RawOnEmptyRegistry ==
  IF op.name = "DbCreateRaw" THEN create("network", EmptyRegistryRun, TRUE, AnyIter)
  ELSE IF op.name = "DbUpdateRaw" THEN update("network", EmptyRegistryRun, TRUE, AnyIter)
  ELSE delete("network", EmptyRegistryRun, op.filter, TRUE, AnyIter)

\* The storage calls and write-backs of a trace, in order.
Effects(t) == SelectSeq(t, LAMBDA e : e.type \in {"storage", "writeback"})

\* The request made left what run state ref leaves.
SameOutcome(ref) ==
  /\ Effects(trace) = Effects(ref.trace)
  /\ rawResource = ref.raw
  /\ err = ref.err
  /\ panicked = ref.panic
  /\ db = ref.db

\* C13: DbCreateRaw, DbUpdateRaw and DbDeleteRaw dispatch no event and
\* invoke no handler, whatever is registered, and make the storage calls,
\* write back the values and return the result that CreateRaw, UpdateRaw
\* and DeleteRaw make with an empty handler registry.
C13_DbVariantsSkipEvents ==
  op.name \in DbNames =>
    /\ HandlerIdx = {}
    /\ Entries("event") = {}
    /\ SameOutcome(RawOnEmptyRegistry)

\* A DbUpdateRaw that stored a status the registered pre_update handler
\* rejects.
C13_Witness ==
  /\ op.name = "DbUpdateRaw"
  /\ err = NoErr
  /\ op.resource["Status"] = DIP
  /\ db["r1"]["status"] = DIP
  /\ Has(schemaHandlers, "pre_update")
  /\ Has(schemaHandlers["pre_update"], "network")
  /\ \E p \in DOMAIN schemaHandlers["pre_update"]["network"] :
       schemaHandlers["pre_update"]["network"][p][1] = "reject"

\* ------------------------------------------------------------------------
\* Properties of the transaction requirement
\* ------------------------------------------------------------------------

\* The operations that look a transaction up in the context they are given.
TransactionalNames ==
  {"ListRaw", "FetchRaw", "StateFetchRaw", "Count", "DbStateUpdateRaw",
   "CreateRaw", "UpdateRaw", "DeleteRaw"} \cup DbNames

PointerNames == {"CreateRaw", "UpdateRaw", "DbCreateRaw", "DbUpdateRaw"}

CrudNames == {"CreateRaw", "UpdateRaw", "DeleteRaw"}

\* The handler invocations and storage calls that failed.
FailedHandlers == {i \in HandlerIdx : trace[i].failed}

FailedStorage == {i \in Entries("storage") : trace[i].failed}

\* Handler failures of create, update and delete reach the caller as the value
\* the handler returned.
HandlerErrorsUnchanged ==
  op.name \in CrudNames => \A i \in FailedHandlers : err = HandlerErr(trace[i].h)

\* The same for the handlers registered for one schema only.
SchemaHandlerErrorsUnchanged ==
  op.name \in CrudNames =>
    \A i \in FailedHandlers : trace[i].scope = "schema" => err = HandlerErr(trace[i].h)

\* Storage failures reach the caller as the value the storage returned.
StorageErrorsUnchanged ==
  op.name \in CrudNames => \A i \in FailedStorage : err = StorageErr(trace[i].event)

\* C16: a handler failure during an event dispatched by create, update or
\* delete is returned to the caller as the very value the handler returned,
\* for schema-specific and schema-agnostic handlers alike, and a storage
\* error is returned unchanged.
C16_FailuresReturnedUnchanged == HandlerErrorsUnchanged /\ StorageErrorsUnchanged

\* ------------------------------------------------------------------------
\* Properties of broadcast dispatch
\* ------------------------------------------------------------------------

\* The HandleEvent call made, run again with the maps ranged over in order it.
DispatchAgain(it) ==
  HandleEvent(op.event, StartRun(op.ctx, ZeroResource, TRUE, InitialDb, 0), it)

Broadcast == op.name = "HandleEvent" /\ ~Has(op.ctx, "schema_id")

\* The schemas a broadcast dispatched to, in the order of their dispatch
\* (a dispatch shows in the trace by the invocations it made).
SchemasWithHandlers == DOMAIN MapGet(schemaHandlers, op.event, EmptyMap)

\* A broadcast that returned no error dispatched to every schema holding
\* handlers for the event.
BroadcastReachesEverySchema ==
  (Broadcast /\ err = NoErr) =>
    \A schemaID \in SchemasWithHandlers :
      Invoked(Invocations(1, "schema", schemaID))
        = Registrations(schemaHandlers[op.event][schemaID])

\* C17: a broadcast HandleEvent (no schema_id in the context) visits the
\* schemas holding handlers for the event in one fixed order, so that what
\* it invokes, in which order, and what it returns are the same on every
\* run with the same registrations.
C17_BroadcastOrderFixed ==
  Broadcast =>
    \A it \in IterOrders(family) :
      /\ DispatchAgain(it).trace = trace
      /\ DispatchAgain(it).err = err

\* ------------------------------------------------------------------------
\* Properties of handler registration
\* ------------------------------------------------------------------------

\* The handlers registered for (event, schema, priority), in order.
Registered(registry, event, schemaID, priority) ==
  MapGet(MapGet(MapGet(registry, event, EmptyMap), schemaID, EmptyMap), priority, <<>>)

\* This step appended h under (event, schemaID, priority) and changed nothing
\* else in the registries.
Appended(schemaID, event, h, priority) ==
  /\ handlers' = handlers
  /\ panicked' = ""
  /\ Registered(schemaHandlers', event, schemaID, priority)
       = Append(Registered(schemaHandlers, event, schemaID, priority), h)
  /\ \A e \in FamilyEvents(family), s \in FamilySchemas(family), p \in Priorities :
       <<e, s, p>> # <<event, schemaID, priority>> =>
         Registered(schemaHandlers', e, s, p) = Registered(schemaHandlers, e, s, p)

\* This step panicked and left the registries as they were.
Rejected ==
  /\ panicked' # ""
  /\ handlers' = handlers
  /\ schemaHandlers' = schemaHandlers

\* C18: RegisterResourceEventHandler with an event name that is the ID of a
\* custom action the schema declares panics at registration and leaves the
\* handler registries unchanged; with any other event name it appends the
\* handler under (event, schema, priority).
C18_CustomActionNameRejected ==
  [][\A schemaID \in Schemas, event \in FamilyEvents(family), h \in Kinds,
        priority \in Priorities :
       (op = NoRequest /\ nreg < MaxReg /\ op'.name \in {"none", "RegisterResourceEventHandler"}
          /\ registerResourceEventHandler(schemaID, event, h, priority)) =>
         IF event \in Actions(schemaID) THEN Rejected
         ELSE Appended(schemaID, event, h, priority)]_vars

\* A registration of a lifecycle handler under the name of a custom action
\* of the schema panicked with an earlier registration in place.
C18_Witness ==
  /\ op.name = "RegisterResourceEventHandler"
  /\ op.event \in Actions("network")
  /\ panicked # ""
  /\ nreg > 0
  /\ Registered(schemaHandlers, "notify", "subnet", 2) # <<>>

\* ------------------------------------------------------------------------
\* Properties of the extension runtime
\* ------------------------------------------------------------------------

HandlerCalls(t) == SelectSeq(t, LAMBDA e : e.type = "handler")

\* A clone of the environment that served the request.
CloneOfServing == EnvironmentClone(Environment(handlers, schemaHandlers), 2, 1)

\* The HandleEvent call made, made on env with the maps ranged over in order it.
DispatchOn(env, it) ==
  HandleEvent(op.event,
              [StartRun(op.ctx, ZeroResource, TRUE, InitialDb, 0) EXCEPT !.env = env], it)

\* C19: HandleEvent on a clone of the runtime invokes the handlers that the
\* same HandleEvent invokes on the runtime it was cloned from, in the same
\* order, nothing having been registered on the clone.
C19_CloneSharesRegistries ==
  op.name = "HandleEvent" =>
    \E it \in IterOrders(family) :
      HandlerCalls(DispatchOn(CloneOfServing, it).trace) = HandlerCalls(trace)

\* The capability accessors and the trace identifier of an environment.
Bindings(env) ==
  <<env.extCore, env.extLogger, env.extSchemas, env.extSync, env.extDatabase, env.traceID>>

\* Every accessor of environment self is nil or bound to self.
Owned(env, self) ==
  \A b \in {env.extCore, env.extLogger, env.extSchemas, env.extSync, env.extDatabase} :
    b \in {NilBinding, self}

\* This step is Stop(), Start() or either half of Reset() on environment i.
ActsOn(i) ==
  \/ envs' = stopEnvironment(envs, i)
  \/ envs' = [stopEnvironment(envs, i) EXCEPT ![i].resetting = TRUE]
  \/ envs' = startEnvironment(envs, i, uuids + 1)
  \/ envs' = [startEnvironment(envs, i, uuids + 1) EXCEPT ![i].resetting = FALSE]

\* C20: Stop, Start and Reset on one environment leave the Core, Logger,
\* Schemas, Sync and Database accessors and the trace identifier of every
\* other environment as they were, however the steps of two requests on
\* different clones interleave; a clone is made without touching the others,
\* and the accessors of an environment are never those of another.
C20_BindingsPerInstance ==
  [][envs' # envs =>
       /\ \A i \in DOMAIN envs :
            ActsOn(i) => \A j \in DOMAIN envs \ {i} : Bindings(envs'[j]) = Bindings(envs[j])
       /\ \A j \in DOMAIN envs :
            Len(envs') > Len(envs) => Bindings(envs'[j]) = Bindings(envs[j])
       /\ \A i \in DOMAIN envs' : Owned(envs'[i], i)]_vars

\* The original is in the middle of a Reset, stopped, while a clone that was
\* started holds its own accessors and trace identifier.
C20_Witness ==
  /\ Len(envs) >= 2
  /\ envs[1].resetting
  /\ envs[1].extCore = NilBinding
  /\ envs[1].traceID # 0
  /\ envs[2].extCore = 2
  /\ envs[2].traceID \notin {0, envs[1].traceID}
  /\ envs[2].handlers # EmptyMap

\* ------------------------------------------------------------------------
\* Properties of concurrent dispatch
\* ------------------------------------------------------------------------

\* HandleEvent as request i made it, run alone on the registries loaded.
Alone(i) ==
  HandleEvent("notify",
              [StartRun(procs[i].ctx, ZeroResource, TRUE, InitialDb, 0)
                 EXCEPT !.env = procs[i].loaded],
              AnyIter)

\* Request i invoked, returned and left in its context what run state ref does.
SameRun(i, ref) ==
  /\ procs[i].st.trace = ref.trace
  /\ procs[i].st.err = ref.err
  /\ procs[i].st.ctx = ref.ctx

\* C21: of two requests dispatching concurrently through the same
\* registries, each on its own context, each invokes the handlers and
\* returns the result it would alone, also when a handler of the other
\* fails, and the dispatch leaves the registries as they were loaded.
C21_ConcurrentDispatchIndependent ==
  \A i \in DOMAIN procs :
    /\ Environment(handlers, schemaHandlers) = procs[i].loaded
    /\ procs[i].st.env = procs[i].loaded
    /\ procs[i].pc = "done" => SameRun(i, Alone(i))

\* The first request was aborted by a failing handler; the second invoked
\* handlers and returned no error.
C21_Witness ==
  /\ Len(procs) = 2
  /\ procs[1].pc = "done"
  /\ procs[1].st.err # NoErr
  /\ procs[2].pc = "done"
  /\ procs[2].st.err = NoErr
  /\ \E k \in 1..Len(procs[2].st.trace) : procs[2].st.trace[k].type = "handler"

\* No handler is registered twice on env.
RegisteredOnce(env) ==
  /\ \A e \in DOMAIN env.handlers : \A p \in DOMAIN env.handlers[e] : Len(env.handlers[e][p]) <= 1
  /\ \A e \in DOMAIN env.schemaHandlers : \A s \in DOMAIN env.schemaHandlers[e] :
       \A p \in DOMAIN env.schemaHandlers[e][s] : Len(env.schemaHandlers[e][s][p]) <= 1

\* This step is a Load or a LoadExtensionsForPath, of paths that are all
\* loaded already on the environment it is called on.
LoadsAgain ==
  /\ lastCall'.name \in {"Load", "LoadExtensionsForPath"}
  /\ \A k \in DOMAIN lastCall'.urls : lastCall'.urls[k] \in envs[lastCall'.env].initFns

\* C22: loading a path that is loaded already, through Load or through
\* LoadExtensionsForPath, returns success, leaves the recorded initializers
\* as they were and registers no handler a second time.
C22_LoadAgainIsNoOp ==
  [][(LoadsAgain /\ RegisteredOnce(envs[lastCall'.env])) =>
       /\ lastCall'.err = NoErr
       /\ envs'[lastCall'.env].initFns = envs[lastCall'.env].initFns
       /\ RegisteredOnce(envs'[lastCall'.env])]_vars

\* The paths Load fails on.
FailingBinaries == {binary \in Binaries : Ext(binary) # ".so" \/ ~pluginOpen(binary) \/ ~lookupInit(binary) \/ ~initSignature(binary)}

\* C23: a Load of a path that is not a .so file, cannot be opened, has no
\* Init symbol or has an Init of the wrong signature returns false and an
\* error, and leaves every environment as it was: no initializer recorded,
\* none run, no handler registered, nothing started.
C23_FailedLoadChangesNothing ==
  [][(lastCall'.name = "Load" /\ lastCall'.urls[1] \in FailingBinaries) =>
       /\ ~lastCall'.ok
       /\ lastCall'.err # NoErr
       /\ envs' = envs
       /\ uuids' = uuids]_vars

\* A failed Load returned on an environment that was started with an
\* extension before: the extension is all it holds.
C23_Witness ==
  /\ lastCall.name = "Load"
  /\ lastCall.urls[1] \in {"noinit.so", "badsig.so"}
  /\ ~lastCall.ok
  /\ envs[lastCall.env].initFns = {"acl.so"}
  /\ envs[lastCall.env].schemaHandlers # EmptyMap

\* The five capability accessors of an environment.
Accessors(env) == {env.extCore, env.extLogger, env.extSchemas, env.extSync, env.extDatabase}

\* C24: when the Stop of an environment returned, its five accessors are
\* cleared, and when its Reset returned they are all bound again, whether
\* the environment holds extensions or none.
C24_ResetRebinds ==
  /\ lastCall.name = "Stop" => Accessors(envs[lastCall.env]) = {NilBinding}
  /\ lastCall.name = "Reset" => Accessors(envs[lastCall.env]) = {lastCall.env}

\* The handlers env holds for an event, a schema and a priority.
SchemaBucket(env, event, schemaID, priority) ==
  MapGet(MapGet(MapGet(env.schemaHandlers, event, EmptyMap), schemaID, EmptyMap), priority, <<>>)

\* The schema-agnostic handlers env holds for an event and a priority.
Bucket(env, event, priority) == MapGet(MapGet(env.handlers, event, EmptyMap), priority, <<>>)

\* Every initializer of env was run exactly once: each bucket holds what
\* the first Start left in it.
StartedOnce(env) ==
  /\ env.initFns # {}
  /\ RegisteredOnce(env)
  /\ "acl.so" \in env.initFns => SchemaBucket(env, "notify", "network", 10) = <<"reject">>
  /\ "audit.so" \in env.initFns => Bucket(env, "notify", 2) = <<"mark">>

\* C34: a Start or a Reset of an environment whose initializers were all run
\* once leaves every bucket of its registries as the first Start left it:
\* Stop/Start cycles do not accumulate registrations.
C34_RestartKeepsRegistrations ==
  [][(lastCall'.name \in {"Start", "Reset"} /\ StartedOnce(envs[lastCall'.env])) =>
       /\ envs'[lastCall'.env].handlers = envs[lastCall'.env].handlers
       /\ envs'[lastCall'.env].schemaHandlers = envs[lastCall'.env].schemaHandlers]_vars

\* ------------------------------------------------------------------------
\* Fetching
\* ------------------------------------------------------------------------

RawFetchNames == {"FetchRaw", "LockFetchRaw", "FetchFilterRaw"}

TypedFetchNames == {"Fetch", "LockFetch", "FetchFilter"}

FetchNames ==
  RawFetchNames \cup TypedFetchNames \cup {UntypedName[n] : n \in RawFetchNames \cup TypedFetchNames}

LockFetchNames == {"LockFetchRaw", "LockFetch", UntypedName["LockFetchRaw"], UntypedName["LockFetch"]}

\* The storage fetch of the request was made and reported that no row
\* matches the filter.
StorageReportedNotFound ==
  /\ Entries("storage") # {}
  /\ op.failAt # 1
  /\ listedRows(db, op.filter) = <<>>

\* C25: a fetch of any variant returns ErrResourceNotFound exactly when the
\* storage fetch reported that nothing was found, returns any other error
\* of the storage fetch as it is, and never returns without an error and
\* without a resource.
C25_NotFoundIsDistinguished ==
  (op.name \in FetchNames /\ panicked = "") =>
    /\ err = ErrResourceNotFound <=> StorageReportedNotFound
    /\ op.failAt = 1 =>
         err = StorageErr(IF op.name \in LockFetchNames THEN "LockFetch" ELSE "Fetch")
    /\ err = NoErr => Len(result.resources) = 1

\* A typed fetch under a lock, by an ID no row has, returned
\* ErrResourceNotFound after its one storage call.
C25_Witness ==
  /\ op.name = "LockFetch"
  /\ op.filter = [id |-> "r9"]
  /\ Len(trace) = 1
  /\ err = ErrResourceNotFound

\* ------------------------------------------------------------------------
\* Schemas without a registered native type
\* ------------------------------------------------------------------------

UntypedListNames == {UntypedName[n] : n \in {"ListRaw", "LockListRaw", "List", "LockList"}}

UntypedFetchNames == {UntypedName[n] : n \in RawFetchNames \cup TypedFetchNames}

UntypedWriteNames == {UntypedName["CreateRaw"], UntypedName["UpdateRaw"]}

UntypedNames == {UntypedName[n] : n \in DOMAIN UntypedName}

\* A request on the schema without a native type, given a pointer and an
\* open transaction, no storage call of which fails.
UntypedRequest ==
  /\ op.name \in UntypedNames
  /\ op.ctx = InboundContext
  /\ op.pointer
  /\ op.failAt = 0

ReadNames ==
  {"ListRaw", "LockListRaw", "List", "LockList", "StateFetchRaw", "Count"} \cup FetchNames \cup UntypedListNames

\* Handlers are registered for an event.
HandlersRegistered == handlers # EmptyMap \/ schemaHandlers # EmptyMap

\* C27: a list, fetch, state fetch or count, typed or raw, locking or not,
\* dispatches no event and invokes no handler, whatever handlers are
\* registered and however the operation ends.
C27_ReadsDispatchNothing ==
  op.name \in ReadNames => (Entries("event") = {} /\ HandlerIdx = {} /\ db = InitialDb)

\* A typed list under a lock returned both rows after its one storage call,
\* with a schema handler and a generic handler registered.
C27_Witness ==
  /\ op.name = "LockList"
  /\ handlers # EmptyMap
  /\ schemaHandlers # EmptyMap
  /\ Len(result.resources) = 2
  /\ Len(trace) = 1
  /\ trace[1].type = "storage"

\* ------------------------------------------------------------------------
\* Property filter
\* ------------------------------------------------------------------------

\* The filter held keeps key k: every key for allow-all, none for deny-all,
\* the keys of the visible list the factory was given for an allow-list,
\* the keys not in the hidden list it was given for a deny-list.
Kept(k) ==
  CASE filtering.filter.type = "includeAllFilter" -> TRUE
    [] filtering.filter.type = "excludeAllFilter" -> FALSE
    [] filtering.filter.type = "visibleFilter" ->
         \E i \in DOMAIN filtering.factory.visible.elems : filtering.factory.visible.elems[i] = k
    [] OTHER ->
         \A i \in DOMAIN filtering.factory.hidden.elems : filtering.factory.hidden.elems[i] # k

\* s is the kept keys of the list given, in the order given.
RECURSIVE KeptInOrder(_, _)
KeptInOrder(s, given) ==
  IF given = <<>> THEN s = <<>>
  ELSE IF Kept(Head(given)) THEN s # <<>> /\ Head(s) = Head(given) /\ KeptInOrder(Tail(s), Tail(given))
  ELSE KeptInOrder(s, Tail(given))

\* C28: RemoveHiddenKeysFromMap returns a map of exactly the kept keys of
\* its input with the values the input holds, RemoveHiddenKeysFromSlice a
\* slice of exactly the kept keys in input order, and IsForbidden(k) is true
\* exactly for the keys not kept, for the allow-all, deny-all, allow-list
\* and deny-list filters.
C28_FiltersKeepWhatThePolicyNames ==
  /\ filtering.call.name = "RemoveHiddenKeysFromMap" =>
       /\ DOMAIN filtering.call.outMap = {k \in DOMAIN filtering.call.data : Kept(k)}
       /\ \A k \in DOMAIN filtering.call.outMap : filtering.call.outMap[k] = filtering.call.data[k]
  /\ filtering.call.name = "RemoveHiddenKeysFromSlice" =>
       /\ ~filtering.call.outKeys.nil
       /\ KeptInOrder(filtering.call.outKeys.elems, filtering.call.keys.elems)
  /\ filtering.call.name = "IsForbidden" => (filtering.call.outBool <=> ~Kept(filtering.call.key))

\* A deny-list filter made of the list <<"a">> returned the entry of "b" and
\* that of "c" for a map of "a", "b" and "c".
C28_Witness ==
  /\ filtering.call.name = "RemoveHiddenKeysFromMap"
  /\ filtering.filter.type = "hiddenFilter"
  /\ filtering.factory.hidden = Slice(<<"a">>)
  /\ DOMAIN filtering.call.data = {"a", "b", "c"}
  /\ DOMAIN filtering.call.outMap = {"b", "c"}

\* C29: CreateFilterFromProperties decides by the emptiness of its lists: an
\* error exactly when both are non-empty, an allow-all filter when both are
\* empty (nil or of length zero), an allow-list filter of the visible list
\* when only that is non-empty, a deny-list filter of the hidden list when
\* only that is non-empty, whatever the factory was called with before.
C29_DecidedByEmptiness ==
  filtering.call.name = "CreateFilterFromProperties" =>
    /\ filtering.call.err # NoErr <=>
         (Len(filtering.call.visible.elems) > 0 /\ Len(filtering.call.hidden.elems) > 0)
    /\ (Len(filtering.call.visible.elems) = 0 /\ Len(filtering.call.hidden.elems) = 0) =>
         filtering.filter = Strategy("includeAllFilter", {})
    /\ (Len(filtering.call.visible.elems) > 0 /\ Len(filtering.call.hidden.elems) = 0) =>
         filtering.filter = Strategy("visibleFilter", sliceToSet(filtering.call.visible))
    /\ (Len(filtering.call.visible.elems) = 0 /\ Len(filtering.call.hidden.elems) > 0) =>
         filtering.filter = Strategy("hiddenFilter", sliceToSet(filtering.call.hidden))

\* The filter held was made by the factory from no visible and no hidden
\* list.
BuiltWithNeither ==
  /\ filtering.filter \notin {NilFilter, CreateExcludeAllFilter}
  /\ filtering.factory.visible.nil
  /\ filtering.factory.hidden.nil

\* C30: when AllowsAll() returns true the filter forbids no key and
\* RemoveHiddenKeysFromMap returns a map equal to its input; it returns true
\* for the filter built with neither list and false for the deny-all, the
\* allow-list and the deny-list filters.
C30_AllowsAllIsSound ==
  filtering.call.name = "AllowsAll" =>
    /\ filtering.call.outBool =>
         /\ \A k \in DataKeys : ~IsForbidden(filtering.filter, k)
         /\ \A data \in DataMaps : RemoveHiddenKeysFromMap(filtering.filter, data) = data
    /\ BuiltWithNeither => filtering.call.outBool
    /\ filtering.filter.type \in {"excludeAllFilter", "visibleFilter", "hiddenFilter"} =>
         ~filtering.call.outBool

\* AllowsAll() returned true for a filter made from two nil lists by a
\* factory.
C30_Witness ==
  /\ filtering.call.name = "AllowsAll"
  /\ BuiltWithNeither
  /\ filtering.call.outBool

\* ------------------------------------------------------------------------
\* Properties of the marshaler over typed fields
\* ------------------------------------------------------------------------

\* The value of the declared type of a field: a string, an integer, and for
\* a nullable property also null.
MatchesDeclared(value, type) ==
  CASE type = "string" -> value.kind = "string"
    [] type = "int" -> value.kind = "int"
    [] type = "goext.NullString" -> value.kind \in {"string", "nil"}
    [] OTHER -> value.kind \in {"int", "nil"}

\* What the contract of toMap has a field value emitted as: the wrapped
\* value of a valid wrapper, null for an invalid one, any other value as is.
Emitted(value) == IF value.kind \in NullTypes THEN wrapperToMap(value) ELSE value

\* The map was made a resource by resourceFromContext and a map again.
RoundTrip == marshaling.name = "resourceFromContext" /\ marshaling.ok

\* C31: a map whose keys are exactly the storage tags of the raw type and
\* whose values are of the declared types comes back from
\* resourceToMap(resourceFromContext(m)) as it went in; a key absent from
\* the map comes back as the zero value of its field.
C31_RoundTripLaw ==
  RoundTrip =>
    /\ (/\ DOMAIN marshaling.data = FieldTags(RawNetwork)
        /\ \A tag \in FieldTags(RawNetwork) :
             MatchesDeclared(marshaling.data[tag], FieldTagged(RawNetwork, tag).type))
         => marshaling.out = marshaling.data
    /\ \A tag \in FieldTags(RawNetwork) \ DOMAIN marshaling.data :
         marshaling.out[tag] = Emitted(zeroValue(FieldTagged(RawNetwork, tag).type))

\* The map was made a resource, by resourceFromContext or by
\* updateResourceFromContextR, and the resource a map again.
Populated ==
  /\ marshaling.name \in {"resourceFromContext", "updateResourceFromContextR"}
  /\ marshaling.ok
  /\ ~marshaling.panics

\* C32: a nullable wrapper field populated from a null or absent key comes
\* back out of resourceToMap as null, one populated from a value X comes back
\* as X; resourceToMap emits the wrapped value exactly when the validity flag
\* is set.
C32_NullableFieldsFollowValidity ==
  /\ Populated =>
       \A i \in DOMAIN RawNetwork :
         RawNetwork[i].type \in NullTypes =>
           /\ attribute(marshaling.data, RawNetwork[i].tag) = Nil
                => marshaling.out[RawNetwork[i].tag] = Nil
           /\ attribute(marshaling.data, RawNetwork[i].tag).kind \in {"string", "int"}
                => marshaling.out[RawNetwork[i].tag] = attribute(marshaling.data, RawNetwork[i].tag)
           /\ marshaling.out[RawNetwork[i].tag] = Emitted(marshaling.resource[RawNetwork[i].name])
  /\ marshaling.name = "resourceToMap" =>
       marshaling.outValue = Emitted(marshaling.wrapper)

\* ------------------------------------------------------------------------
\* Properties of Auth
\* ------------------------------------------------------------------------

\* The context holds, under key, a value of the type and of the name.
Holds(context, key, type, name) ==
  /\ Has(context, key)
  /\ context[key].type = type
  /\ context[key].name = name

\* C33: IsAdminContext answers true exactly when the context holds a role of
\* the role type that matches "admin" and an authorization of the
\* authorization type for the tenant "admin"; in every other case (another
\* role, another tenant, a key missing or of another type) it answers false.
C33_AdminOnAdminTenantOnly ==
  authorizing.name = "IsAdminContext" =>
    (authorizing.admin <=>
       /\ Holds(authorizing.context, "role", "*schema.Role", "admin")
       /\ Holds(authorizing.context, "auth", "schema.Authorization", "admin"))

\* An admin logged in to another tenant was answered false.
C33_Witness ==
  /\ authorizing.name = "IsAdminContext"
  /\ Holds(authorizing.context, "role", "*schema.Role", "admin")
  /\ Holds(authorizing.context, "auth", "schema.Authorization", "demo")
  /\ ~authorizing.admin

\* ------------------------------------------------------------------------
\* The caller's resource after a failed write
\* ------------------------------------------------------------------------

\* The creates and updates, on a schema with a raw type and on one without.
WriteNames == PointerNames \cup UntypedWriteNames

\* The request returned an error of its pre_* dispatch: a handler of it
\* failed, or the resource of the context could not be parsed for it.
PreDispatchFailed ==
  \/ \E j \in HandlerIdx : trace[j].failed /\ trace[j].event \in {"pre_create", "pre_update"}
  \/ err.tag = "bad_request" /\ err.event \in {"pre_create", "pre_update"}

\* The request returned the error of its storage write.
StorageWriteFailed ==
  \E i \in Entries("storage") : trace[i].failed /\ trace[i].event \in {"Create", "Update"}

\* C35: when a create or an update returns an error of its pre_* dispatch or
\* of its storage call, the caller's resource is as it was passed in,
\* whatever the pre handlers that ran before the failure did to theirs.
C35_FailedWriteLeavesResource ==
  (op.name \in WriteNames /\ err # NoErr /\ (PreDispatchFailed \/ StorageWriteFailed)) =>
    rawResource = op.resource

\* A pre_update handler changed the resource it was given, a later one
\* failed, and the caller's resource is as it was passed in.
C35_Witness ==
  /\ op.name = "UpdateRaw"
  /\ err # NoErr
  /\ rawResource = op.resource
  /\ \E i, j \in HandlerIdx :
       /\ i < j
       /\ trace[i].event = "pre_update"
       /\ trace[i].scope = "schema"
       /\ trace[i].res # trace[i].resAfter
       /\ trace[j].event = "pre_update"
       /\ trace[j].failed

\* ------------------------------------------------------------------------
\* A multi-row delete that fails
\* ------------------------------------------------------------------------

\* A delete failed in the sequence of one of its rows.
DeleteFailedInRow ==
  /\ op.name = "DeleteRaw"
  /\ err # NoErr
  /\ panicked = ""
  /\ Len(DeleteSteps) > 0

\* The step a delete makes at position s of its dispatches and storage
\* deletes: pre_delete, storage delete, post_delete of row (s + 2) \div 3.
IsDeleteStep(e, s) ==
  CASE s % 3 = 1 -> IsStep(e, "event", "pre_delete", MatchedRows[(s + 2) \div 3]["id"])
    [] s % 3 = 2 -> IsStep(e, "storage", "Delete", MatchedRows[(s + 2) \div 3]["id"])
    [] OTHER -> IsStep(e, "event", "post_delete", MatchedRows[(s + 2) \div 3]["id"])

\* C36: a delete of several rows lists the matching rows once, before any
\* event or storage delete, handles them in listing order and stops at the
\* first failure. When the sequence of row k fails, the rows before k have
\* had their storage delete and their post_delete, the rows after k get no
\* event and no storage delete, row k is deleted exactly when its
\* post_delete is what failed, and no storage call undoes a delete.
C36_DeleteStopsAtFirstFailure ==
  DeleteFailedInRow =>
    /\ trace[1].type = "storage" /\ trace[1].event = "List"
    /\ \A i \in Entries("storage") \ {1} : trace[i].event = "Delete"
    /\ Len(DeleteSteps) <= 3 * Len(MatchedRows)
    /\ \A s \in 1..Len(DeleteSteps) : IsDeleteStep(DeleteSteps[s], s)
    /\ \A i \in 1..(Len(trace) - 1) : ~trace[i].failed
    /\ trace[Len(trace)].failed
    /\ \A i \in 1..Len(MatchedRows) :
         CASE 3 * i < Len(DeleteSteps) -> ~Has(db, MatchedRows[i]["id"])
           [] 3 * i = Len(DeleteSteps) -> ~Has(db, MatchedRows[i]["id"])
           [] 3 * i - 2 > Len(DeleteSteps) ->
                Has(db, MatchedRows[i]["id"]) /\ db[MatchedRows[i]["id"]] = MatchedRows[i]
           [] OTHER -> Has(db, MatchedRows[i]["id"])

\* The delete of two rows failed in the post_delete of the second: both
\* rows are deleted and the request returned the error.
C36_Witness ==
  /\ DeleteFailedInRow
  /\ Len(MatchedRows) = 2
  /\ Len(DeleteSteps) = 6
  /\ trace[Len(trace)].type = "handler"
  /\ trace[Len(trace)].event = "post_delete"
  /\ db = EmptyMap

\* ------------------------------------------------------------------------
\* A dispatch on a context that names its schema
\* ------------------------------------------------------------------------

\* The HandleEvent calls whose context named a schema.
SingleDispatches == {m \in Entries("event") : trace[m].scope = "single"}

\* The schema pass of call m has nothing to do: the schema the context names
\* has no handler for the event, or the schema registry does not know it.
SchemaPassSkipped(m) ==
  \/ ~Has(schemaHandlers, trace[m].event)
  \/ ~Has(schemaHandlers[trace[m].event], trace[m].schema)
  \/ ~Find(trace[m].schema)

\* C37: a HandleEvent on a context that names a schema invokes the schema
\* handlers of that schema only; when the schema has no handler for the
\* event or is not known to the schema registry, no schema handler is
\* invoked, no error comes of it and the schema-agnostic handlers run.
C37_NamedSchemaOnly ==
  \A m \in SingleDispatches :
    /\ \A j \in HandlerIdx :
         (trace[j].call = trace[m].call /\ trace[j].scope = "schema") =>
           trace[j].schema = trace[m].schema
    /\ SchemaPassSkipped(m) =>
         /\ \A j \in HandlerIdx : trace[j].call = trace[m].call => trace[j].scope = "generic"
         /\ Has(handlers, trace[m].event) =>
              /\ Invocations(trace[m].call, "generic", "") # {}
              /\ err.tag \notin {"no_schema", "bad_request"}
         /\ (op.name = "HandleEvent" /\ ~Has(handlers, trace[m].event)) => err = NoErr

\* The context named a schema the registry does not know, a handler was
\* registered under it, and the schema-agnostic handler ran alone.
C37_Witness ==
  /\ op.name = "HandleEvent"
  /\ Has(op.ctx, "schema_id")
  /\ op.ctx["schema_id"] = UnknownSchema
  /\ Has(schemaHandlers, "notify")
  /\ Has(schemaHandlers["notify"], UnknownSchema)
  /\ err = NoErr
  /\ \E j \in HandlerIdx : trace[j].scope = "generic"
  /\ \A j \in HandlerIdx : trace[j].scope = "generic"

\* ------------------------------------------------------------------------
\* A resource of the context that cannot be parsed
\* ------------------------------------------------------------------------

\* The three ways the resource of a context fails to become the typed
\* resource of a schema.
NoRawType(schemaID) == schemaID \notin rawTypes

FieldWithoutTag(schemaID) == \E i \in 1..Len(rawTags(schemaID)) : rawTags(schemaID)[i] = ""

TagWithoutProperty(schemaID) ==
  \E i \in 1..Len(rawTags(schemaID)) : rawTags(schemaID)[i] \notin Tags \cup {""}

Unconvertible(schemaID, context) ==
  \/ NoRawType(schemaID)
  \/ Has(context, "resource") /\ (FieldWithoutTag(schemaID) \/ TagWithoutProperty(schemaID))

\* Call m reaches the schema dispatch of the schema: the schema has handlers
\* for the event and the schema registry knows it.
ReachesSchema(m, schemaID) ==
  /\ Has(schemaHandlers, trace[m].event)
  /\ Has(schemaHandlers[trace[m].event], schemaID)
  /\ Find(schemaID)

\* C38: when the resource of the context cannot be converted to the typed
\* resource of the schema dispatched to (no raw type, a field without a tag,
\* a tag that names no property), the dispatch returns a bad-request error
\* having invoked no handler of the schema, and HandleEvent returns that
\* error without running a schema-agnostic handler.
C38_UnparsedResourceIsBadRequest ==
  \A m \in Entries("event") :
    /\ (trace[m].scope = "single" /\ ReachesSchema(m, trace[m].schema)
        /\ Unconvertible(trace[m].schema, trace[m].ctx)) =>
         /\ err = BadRequestErr(trace[m].schema, trace[m].event)
         /\ \A j \in HandlerIdx : trace[j].call # trace[m].call
    /\ (trace[m].scope = "broadcast"
        /\ \E s \in DOMAIN MapGet(schemaHandlers, trace[m].event, EmptyMap) :
             ReachesSchema(m, s) /\ Unconvertible(s, trace[m].ctx)) =>
         /\ err # NoErr
         /\ Invocations(trace[m].call, "generic", "") = {}
         /\ err.tag = "bad_request" =>
              /\ ReachesSchema(m, err.cause)
              /\ Unconvertible(err.cause, trace[m].ctx)
              /\ Invocations(trace[m].call, "schema", err.cause) = {}

\* An event was dispatched on a schema whose raw type has a tag that names
\* no property, a schema handler and a schema-agnostic handler registered
\* for it: bad request, and no handler ran.
C38_Witness ==
  /\ op.name = "HandleEvent"
  /\ Has(op.ctx, "schema_id")
  /\ op.ctx["schema_id"] = StraySchema
  /\ Has(op.ctx, "resource")
  /\ Has(schemaHandlers, "pre_create")
  /\ Has(schemaHandlers["pre_create"], StraySchema)
  /\ Has(handlers, "pre_create")
  /\ err = BadRequestErr(StraySchema, "pre_create")
  /\ HandlerIdx = {}

\* ------------------------------------------------------------------------
\* One filter factory under two goroutines
\* ------------------------------------------------------------------------

\* C39: a goroutine that returned from CreateFilterFromProperties on the
\* shared factory holds the filter, or the error, that its own visible and
\* hidden arguments make on a factory of its own, whatever the other
\* goroutine passed and however their statements interleaved.
C39_CallersGetTheirOwnFilter ==
  \A c \in Callers :
    callers[c].pc = "returned" =>
      /\ callers[c].filter =
           CreateFilterFromProperties(NewFilterFactory, callers[c].visible, callers[c].hidden).filter
      /\ callers[c].err =
           CreateFilterFromProperties(NewFilterFactory, callers[c].visible, callers[c].hidden).err

\* ------------------------------------------------------------------------
\* Begin and BeginTx
\* ------------------------------------------------------------------------

\* Begin or BeginTx returned.
BeginReturned == beginning.name # "none" /\ ~beginning.panics

\* C40: Begin and BeginTx return a transaction handle on a transaction of the
\* database with no error, or no handle with an error; an error of the
\* database, or a nil transaction from it, is never returned as a handle
\* with no error.
C40_BeginReturnsTransactionOrError ==
  BeginReturned =>
    /\ \/ beginning.out.handle /\ beginning.out.t = "tx" /\ beginning.out.err = NoErr
       \/ ~beginning.out.handle /\ beginning.out.err # NoErr
    /\ (beginning.raw.err # NoErr \/ beginning.raw.t # "tx") =>
         ~(beginning.out.handle /\ beginning.out.err = NoErr)
====
